---------------------------- MODULE Spec2Model ----------------------------
(*************************************************************************)
(* Model of the OAuth login handlers of the authentication controller    *)
(* (oauthCallback, oAuthMobile), the passport GoogleStrategy verify      *)
(* callback and the mongoose "users" collection they share.              *)
(*                                                                       *)
(* A request is a process that runs between its awaits: every action is  *)
(* the synchronous stretch of a handler from one await to the next, the  *)
(* store operation (findOne, save, create) being the atomic step at the  *)
(* start of the stretch that receives its result.                        *)
(*************************************************************************)
EXTENDS Integers, Sequences, FiniteSets, TLC

VARIABLES
    users,      \* the "users" collection, in insertion order; _id = position
    now,        \* the clock read by new Date()
    started,    \* number of requests received so far
    pc,         \* pc[r]: the await a request is suspended at
    req,        \* req[r]: the handler and the request body / provider answers
    loc,        \* loc[r]: the handler's local variables
    res,        \* res[r]: the response sent (status 0: none yet)
    log,        \* log[r]: outbound calls and store operations, in order
    signer,     \* whether Token.sign can throw on this server
    store,      \* whether the connection to the database can fail
    clock,      \* the clock read by the methods of the other models
    held,       \* held[c]: the document caller c has in memory
    returned,   \* the calls of model methods so far and what they returned
    account,    \* loginAttempts and lockUntil of one stored user
    verifications, \* the "emailverifications" collection
    sessions,   \* the "sessions" collection
    addresses,  \* the "addresses" collection of one user
    payment     \* one stored payment

\* the state of the request handlers
server == <<users, now, started, pc, req, loc, res, log, signer, store>>

\* the state the methods of the models work on
models == <<clock, held, returned, account, verifications, sessions,
            addresses, payment>>

vars == <<users, now, started, pc, req, loc, res, log, signer, store,
          clock, held, returned, account, verifications, sessions,
          addresses, payment>>

-----------------------------------------------------------------------------
(* Bounds *)

\* requests received in one behaviour
MaxRequests == 2

\* request slots: at most this many requests are in flight together
Slots == {"r1", "r2"}

-----------------------------------------------------------------------------
(* Values *)

\* undefined / null / absent field
NONE == "none"

\* process.env.GOOGLE_CLIENT_ID as configured
GOOGLE_CLIENT_ID == "client-123"

\* String.prototype.trim on the strings of the model
Trim(s) ==
    CASE s = " Bob " -> "Bob"
      [] s = " Bo"   -> "Bo"
      [] OTHER       -> s

\* String.prototype.toLowerCase on the strings of the model
toLowerCase(s) ==
    CASE s = "Google"   -> "google"
      [] s = "GOOGLE"   -> "google"
      [] s = "Facebook" -> "facebook"
      [] s = "A@x.com"  -> "a@x.com"
      [] OTHER          -> s

\* validator.isURL on the strings of the model
isURL(s) == s \in {"https://p/1.png", "https://p/2.png"}

\* validator.isEmail on the strings of the model
isEmail(s) == s \in {"a@x.com", "b@x.com"}


-----------------------------------------------------------------------------
(* The users collection (mongoose schema of the user model) *)

\* a findOne that matched nothing (null)
NoDoc ==
    [id |-> 0, googleId |-> NONE, name |-> NONE, firstName |-> NONE,
     lastName |-> NONE, avatar |-> NONE, email |-> NONE, password |-> NONE,
     isGoogleUser |-> FALSE, isEmailVerified |-> FALSE, role |-> NONE,
     provider |-> NONE, lastLogin |-> 0]

Roles == {"user", "admin", "customer"}

Providers == {"google", "facebook", "apple"}

\* new User(data): the schema's defaults and setters (trim, lowercase) applied
\* to the fields given; password is kept as given (no setter)
Document(data) ==
    [data EXCEPT
        !.name      = Trim(data.name),
        !.firstName = Trim(data.firstName),
        !.lastName  = Trim(data.lastName),
        !.email     = toLowerCase(Trim(data.email)),
        !.role      = IF data.role = NONE THEN "customer" ELSE data.role]

\* the schema's validators, run by save() before the user's pre-save hook.
\* isNew: the document was built by create; a document loaded by findOne
\* does not carry password (select: false), so its required check is skipped.
validate(doc, isNew) ==
    /\ doc.name # NONE
    /\ doc.email # NONE
    /\ isEmail(doc.email)
    /\ (isNew /\ ~doc.isGoogleUser) => doc.password # NONE
    /\ doc.role \in Roles
    /\ doc.avatar = NONE \/ isURL(doc.avatar)
    /\ doc.isGoogleUser => doc.provider # NONE
    /\ doc.provider = NONE \/ doc.provider \in Providers

\* `${firstName} ${lastName}` on the strings of the model
fullName(firstName, lastName) ==
    IF firstName = "Ann" /\ lastName = "Lee" THEN "Ann Lee" ELSE firstName

\* userSchema.pre("save")
preSave(doc) ==
    LET d1 == IF doc.isGoogleUser /\ ~doc.isEmailVerified
              THEN [doc EXCEPT !.isEmailVerified = TRUE] ELSE doc
    IN  IF d1.firstName # NONE /\ d1.lastName # NONE /\ d1.name = NONE
        THEN [d1 EXCEPT !.name = fullName(d1.firstName, d1.lastName)]
        ELSE d1

\* variant of emailTaken for a collection whose email index is not unique
emailTaken_noIndex(us, email) == FALSE

\* the unique index on email
emailTaken(us, email) == \E i \in 1..Len(us) : us[i].email = email

\* User.findOne({ googleId }): the first document whose googleId equals the
\* value; an undefined value is sent as null and matches the documents that
\* have no googleId
findOne(us, googleId) ==
    IF \E i \in 1..Len(us) : us[i].googleId = googleId
    THEN us[CHOOSE i \in 1..Len(us) :
                /\ us[i].googleId = googleId
                /\ \A j \in 1..(i-1) : us[j].googleId # googleId]
    ELSE NoDoc

\* User.findOne({ email }): the schema's setters (trim, lowercase) are run on
\* the value of the filter before it is matched
findOneByEmail(us, email) ==
    LET e == toLowerCase(Trim(email)) IN
    IF \E i \in 1..Len(us) : us[i].email = e
    THEN us[CHOOSE i \in 1..Len(us) :
                /\ us[i].email = e
                /\ \A j \in 1..(i-1) : us[j].email # e]
    ELSE NoDoc

\* User.create(data): validate, pre-save hook, insert under the unique index
\* on email. The googleId index is sparse and not unique.
create(us, data) ==
    LET doc == Document(data) IN
    IF ~validate(doc, TRUE)
    THEN [err |-> "ValidationError", users |-> us, doc |-> NoDoc]
    ELSE LET d == [preSave(doc) EXCEPT !.id = Len(us) + 1] IN
         IF emailTaken(us, d.email)
         THEN [err |-> "MongoServerError", users |-> us, doc |-> NoDoc]
         ELSE [err |-> NONE, users |-> Append(us, d), doc |-> d]

\* user.save() of a document loaded by findOne and then assigned to:
\* validate, pre-save hook, then $set the paths whose value differs from the
\* loaded one (the modified paths) on the stored document
save(us, loaded, doc) ==
    IF ~validate(doc, FALSE)
    THEN [err |-> "ValidationError", users |-> us, doc |-> doc]
    ELSE LET d == preSave(doc)
             stored == us[loaded.id]
             merged == [f \in DOMAIN stored |->
                          IF d[f] # loaded[f] THEN d[f] ELSE stored[f]]
         IN  [err |-> NONE, users |-> [us EXCEPT ![loaded.id] = merged],
              doc |-> d]

-----------------------------------------------------------------------------
(* Requests: bodies, provider answers, responses *)

\* what Google says about a user: the userinfo answer (id, ...) or the
\* payload of an ID token (sub is id here), or the passport profile
\* (displayName is name, name.givenName is given_name, photos[0].value is
\* picture, emails[0].value is email)
Profile(id, email, snap) ==
    [id |-> id, email |-> email, name |-> snap.name,
     given_name |-> snap.given_name, family_name |-> snap.family_name,
     picture |-> snap.picture]

SnapAnn ==
    [name |-> "Ann Lee", given_name |-> "Ann", family_name |-> "Lee",
     picture |-> "https://p/1.png"]

SnapBob ==
    [name |-> " Bob ", given_name |-> " Bo", family_name |-> NONE,
     picture |-> NONE]

SnapNoName ==
    [name |-> NONE, given_name |-> "Ann", family_name |-> "Lee",
     picture |-> "https://p/2.png"]

SnapBadPicture ==
    [name |-> "Ann Lee", given_name |-> NONE, family_name |-> NONE,
     picture |-> "1.png"]

NoProfile == Profile(NONE, NONE, [name |-> NONE, given_name |-> NONE,
                                  family_name |-> NONE, picture |-> NONE])

\* profiles with both id and email
CompleteProfiles ==
    {Profile("g1", "a@x.com", SnapAnn),
     Profile("g1", "a@x.com", SnapBob),
     Profile("g1", "b@x.com", SnapAnn),
     Profile("g2", "a@x.com", SnapBob),
     Profile("g2", "A@x.com", SnapNoName),
     Profile("g1", "a@x.com", SnapBadPicture)}

\* profiles that lack the id or the email
IncompleteProfiles ==
    {Profile(NONE, "b@x.com", SnapAnn), Profile("g2", NONE, SnapAnn)}

\* a tokenId of the request body. kind: "absent" (no tokenId), "opaque" (a
\* string that does not split into 3 segments, such as "abc"), "badjson" (3
\* segments, the middle one not JSON), "jsonnull" (3 segments, the middle one
\* the JSON null) or "jwt" (3 segments, payload an object with aud and the
\* profile claims). valid: Google's signature, issuer and expiry check out.
Token(kind, aud, valid, payload) ==
    [kind |-> kind, aud |-> aud, valid |-> valid, payload |-> payload]

TokenIds ==
    {Token(k, NONE, FALSE, NoProfile) :
        k \in {"absent", "opaque", "badjson", "jsonnull"}}
    \cup {Token("jwt", GOOGLE_CLIENT_ID, FALSE, Profile("g1", "a@x.com", SnapAnn))}
    \cup {Token("jwt", a, TRUE, Profile("g1", "a@x.com", SnapAnn)) :
            a \in {NONE, "client-999"}}
    \cup {Token("jwt", GOOGLE_CLIENT_ID, TRUE, p) :
            p \in CompleteProfiles \cup IncompleteProfiles}

\* the provider of the request body
ProviderInputs == {NONE, "google", "Google", "facebook"}

\* the bodies of POST /auth/oauth/mobile
MobileBodies ==
    {[tokenId |-> t, provider |-> "google"] : t \in TokenIds}
    \cup {[tokenId |-> Token(k, NONE, FALSE, NoProfile), provider |-> p] :
            k \in {"absent", "opaque"}, p \in ProviderInputs}
    \cup {[tokenId |-> Token("jwt", a, TRUE, Profile("g1", "a@x.com", SnapBob)),
           provider |-> p] :
            a \in {GOOGLE_CLIENT_ID, "client-999"}, p \in ProviderInputs}

NoToken == Token("absent", NONE, FALSE, NoProfile)

\* the bodies of POST /auth/register
RegisterBodies ==
    {[email |-> NONE,      name |-> "Ann Lee", password |-> "pw"],
     [email |-> "A@x.com", name |-> "Ann Lee", password |-> "pw"],
     [email |-> "b@x.com", name |-> " Bob ",   password |-> "pw"]}

NoLocals ==
    [tokenData |-> NONE, access_token |-> NONE, tokenAud |-> NONE,
     profile |-> NoProfile, loaded |-> NoDoc, user |-> NoDoc, op |-> NONE]

\* the user object of a 200 response
Summary(user, provider) ==
    [id |-> user.id, name |-> user.name, email |-> user.email,
     avatar |-> user.avatar, role |-> user.role, provider |-> provider]

\* process.env.JWT_ACCESS_SECRET || "k2y_acc3ss", for a server started without
\* the two variables
key_access == "k2y_acc3ss"

\* variant of key_refresh for a server whose two secrets are one
key_refresh_shared == key_access

\* process.env.JWT_REFRESH_SECRET || "k2y_refr3sh"
key_refresh == "k2y_refr3sh"

\* Token.sign({ payload }): an access and a refresh token over the payload,
\* each signed with its own key
Token_sign(payload) ==
    [accessToken  |-> [key |-> key_access, idUser |-> payload.idUser,
                       name |-> payload.name, role |-> payload.role],
     refreshToken |-> [key |-> key_refresh, idUser |-> payload.idUser,
                       name |-> payload.name, role |-> payload.role]]

\* jwt.verify(token, key): the name of the error, or NONE. late: the call
\* comes after the expiry of the token. The signature is checked first.
jwt_verify(token, key, late) ==
    IF token.key # key THEN "JsonWebTokenError"
    ELSE IF late THEN "TokenExpiredError"
    ELSE NONE

NoTokens ==
    [accessToken  |-> [key |-> NONE, idUser |-> 0, name |-> NONE, role |-> NONE],
     refreshToken |-> [key |-> NONE, idUser |-> 0, name |-> NONE, role |-> NONE]]

\* Token.refresh({ refreshToken }): verify the refresh token with the refresh
\* key and its expiry, then sign a new pair over its claims. late: the call
\* comes after the expiry of the token.
Token_refresh(refreshToken, late) ==
    IF jwt_verify(refreshToken, key_refresh, late) = NONE
    THEN [err |-> NONE,
          tokens |-> Token_sign([name   |-> refreshToken.name,
                                 idUser |-> refreshToken.idUser,
                                 role   |-> refreshToken.role])]
    ELSE [err |-> "JsonWebTokenError", tokens |-> NoTokens]

NoRequest ==
    [h |-> NONE, code |-> NONE, tokenId |-> NoToken, provider |-> NONE,
     profile |-> NoProfile, email |-> NONE, name |-> NONE, password |-> NONE,
     refreshToken |-> NoTokens.refreshToken, late |-> FALSE,
     authorization |-> [parts |-> 0, scheme |-> NONE,
                        token |-> NoTokens.accessToken],
     decoded |-> NoTokens.accessToken]

\* res.status(status).json({ error, ... }) without user and tokens
Failed(status, error) ==
    [status |-> status, error |-> error, details |-> NONE,
     tokenAudience |-> NONE, expectedAudience |-> NONE,
     user |-> Summary(NoDoc, NONE), tokens |-> NoTokens]

NoResponse == Failed(0, NONE)

\* variant of Success that signs the role of a new OAuth account
Success_customerRole(user, provider) ==
    [Failed(200, NONE) EXCEPT
        !.user   = Summary(user, provider),
        !.tokens = Token_sign([name |-> user.name, idUser |-> user.id,
                               role |-> "customer"])]

\* res.status(200).json({ success: true, user, ...tokens })
Success(user, provider) ==
    [Failed(200, NONE) EXCEPT
        !.user   = Summary(user, provider),
        !.tokens = Token_sign([name |-> user.name, idUser |-> user.id,
                               role |-> user.role])]

-----------------------------------------------------------------------------
(* Initial state *)

\* an account whose role was set to admin out of band
SeedAdmin ==
    [NoDoc EXCEPT !.id = 1, !.googleId = "g1", !.name = "Ann Lee",
                  !.firstName = "Ann", !.lastName = "Lee",
                  !.email = "a@x.com", !.isGoogleUser = TRUE,
                  !.isEmailVerified = TRUE, !.role = "admin",
                  !.provider = "google", !.lastLogin = 1]

\* a Google account written before the schema had provider
SeedLegacy ==
    [NoDoc EXCEPT !.id = 1, !.googleId = "g1", !.name = "Ann Lee",
                  !.email = "a@x.com", !.isGoogleUser = TRUE,
                  !.isEmailVerified = TRUE, !.role = "customer",
                  !.lastLogin = 1]

\* an account made by register: password, no googleId
SeedRegistered ==
    [NoDoc EXCEPT !.id = 1, !.name = "Bob", !.email = "b@x.com",
                  !.password = "sha256", !.role = "user"]

\* the collections the server may start on
InitStores == {<< >>, <<SeedAdmin>>, <<SeedLegacy>>, <<SeedRegistered>>}

\* the callers of the methods of the models
Callers == {"c1", "c2"}

\* a field that is not in the document
Unset == -1

\* caller c has no document in memory
NoCopy == [loaded |-> FALSE]

\* no method has been called
NoCall == << >>

\* loginAttempts: { type: Number, default: 0 }, lockUntil: Date
NoAccount == [loginAttempts |-> 0, lockUntil |-> Unset]

NoPayment == [amount |-> 0, status |-> NONE, refunds |-> << >>]

\* no method of the models has been called and their collections are empty
ModelsAtRest ==
    /\ clock = 0
    /\ held = [c \in Callers |-> NoCopy]
    /\ returned = NoCall
    /\ account = NoAccount
    /\ verifications = << >>
    /\ sessions = << >>
    /\ addresses = << >>
    /\ payment = NoPayment

\* the server is up and no request has arrived
InitServer ==
    /\ users \in InitStores
    /\ now = 2
    /\ started = 0
    /\ pc  = [r \in Slots |-> "idle"]
    /\ req = [r \in Slots |-> NoRequest]
    /\ loc = [r \in Slots |-> NoLocals]
    /\ res = [r \in Slots |-> NoResponse]
    /\ log = [r \in Slots |-> << >>]
    /\ ModelsAtRest

\* the server takes no request: the state the methods of the models run in
ServerAtRest ==
    /\ users = << >>
    /\ now = 2
    /\ started = 0
    /\ pc  = [r \in Slots |-> "idle"]
    /\ req = [r \in Slots |-> NoRequest]
    /\ loc = [r \in Slots |-> NoLocals]
    /\ res = [r \in Slots |-> NoResponse]
    /\ log = [r \in Slots |-> << >>]
    /\ signer = "ok"
    /\ store = "up"

\* Token.sign returns its pair of tokens
Init == InitServer /\ signer = "ok" /\ store = "up"

\* Token.sign may also throw
InitSignFails == InitServer /\ signer \in {"ok", "faulty"} /\ store = "up"

\* the database may also be unreachable when a store operation is made
InitStoreFails == InitServer /\ signer = "ok" /\ store \in {"up", "flaky"}

\* whether a store operation throws for want of a connection
StoreFaults(st) == IF st = "up" THEN {FALSE} ELSE {FALSE, TRUE}

\* whether a call of Token.sign returns (TRUE) or throws (FALSE)
SignOutcomes(sg) == IF sg = "ok" THEN {TRUE} ELSE {TRUE, FALSE}

\* a request arrives and takes slot r: a slot never used before any finished one
Receive(r) ==
    /\ started < MaxRequests
    /\ started' = started + 1
    /\ IF \E s \in Slots : pc[s] = "idle"
       THEN pc[r] = "idle" /\ (r = "r2" => pc["r1"] # "idle")
       ELSE pc[r] = "done" /\ (r = "r2" => pc["r1"] # "done")

\* the state of request r after a synchronous stretch of its handler
Step(r, o) ==
    /\ pc'  = [pc  EXCEPT ![r] = o.pc]
    /\ loc' = [loc EXCEPT ![r] = o.loc]
    /\ res' = [res EXCEPT ![r] = o.res]
    /\ log' = [log EXCEPT ![r] = o.log]

\* return res.status(...).json(...)
Respond(l, g, response) ==
    [pc |-> "done", loc |-> l, res |-> response, log |-> g]

\* the handler awaits `call`
Await(at, l, g, call) ==
    [pc |-> at, loc |-> l, res |-> NoResponse, log |-> Append(g, call)]

\* variant of updateExisting that leaves the stored name as it is
updateExisting_staleName(user, profile, lastLogin) ==
    [user EXCEPT !.firstName = Trim(profile.given_name),
                 !.lastName  = Trim(profile.family_name),
                 !.avatar    = profile.picture,
                 !.lastLogin = lastLogin]

\* variant of updateExisting that also assigns role, as the create branch does
updateExisting_resetsRole(user, profile, lastLogin) ==
    [user EXCEPT !.name      = Trim(profile.name),
                 !.firstName = Trim(profile.given_name),
                 !.lastName  = Trim(profile.family_name),
                 !.avatar    = profile.picture,
                 !.role      = "customer",
                 !.lastLogin = lastLogin]

\* variant of updateExisting that also takes the email of the profile
updateExisting_takesEmail(user, profile, lastLogin) ==
    [user EXCEPT !.name      = Trim(profile.name),
                 !.firstName = Trim(profile.given_name),
                 !.lastName  = Trim(profile.family_name),
                 !.avatar    = profile.picture,
                 !.email     = toLowerCase(Trim(profile.email)),
                 !.lastLogin = lastLogin]

\* the assignments to the account found: name, firstName, lastName, avatar,
\* lastLogin (the schema's trim setters applied)
updateExisting(user, profile, lastLogin) ==
    [user EXCEPT !.name      = Trim(profile.name),
                 !.firstName = Trim(profile.given_name),
                 !.lastName  = Trim(profile.family_name),
                 !.avatar    = profile.picture,
                 !.lastLogin = lastLogin]

newUserData(profile) ==
    [NoDoc EXCEPT !.googleId = profile.id, !.name = profile.name,
                  !.firstName = profile.given_name,
                  !.lastName = profile.family_name,
                  !.avatar = profile.picture, !.email = profile.email,
                  !.isGoogleUser = TRUE, !.isEmailVerified = TRUE]

\* await user.save() / await User.create(newUserData)
write(us, l) ==
    IF l.op = "save" THEN save(us, l.loaded, l.user) ELSE create(us, l.user)

-----------------------------------------------------------------------------
(* AuthController.oAuthMobile *)

\* variant of supportedProviders with a second provider listed
supportedProviders_facebook == {"google", "facebook"}

supportedProviders == {"google"}

\* variant of oAuthMobile_begin that hands the tokenId to verifyIdToken
\* without decoding it first
oAuthMobile_begin_undecoded(tokenId, provider) ==
    IF tokenId.kind = "absent"
    THEN Respond(NoLocals, << >>, Failed(400, "Missing token ID"))
    ELSE IF provider = NONE
    THEN Respond(NoLocals, << >>, Failed(400, "Missing provider"))
    ELSE IF toLowerCase(provider) \notin {"google"}
    THEN Respond(NoLocals, << >>, Failed(400, "Unsupported provider"))
    ELSE Await("verify", [NoLocals EXCEPT !.tokenAud = tokenId.aud], << >>,
               "verifyIdToken")

\* variant of oAuthMobile_begin that looks at provider before tokenId
oAuthMobile_begin_providerFirst(tokenId, provider) ==
    IF provider = NONE
    THEN Respond(NoLocals, << >>, Failed(400, "Missing provider"))
    ELSE IF tokenId.kind = "absent"
    THEN Respond(NoLocals, << >>, Failed(400, "Missing token ID"))
    ELSE IF toLowerCase(provider) \notin supportedProviders
    THEN Respond(NoLocals, << >>, Failed(400, "Unsupported provider"))
    ELSE IF tokenId.kind \in {"opaque", "badjson"}
    THEN Respond(NoLocals, << >>, Failed(401, "Token decode failed"))
    ELSE IF tokenId.kind = "jsonnull"
    THEN Respond(NoLocals, << >>, Failed(500, "Internal server error"))
    ELSE Await("verify", [NoLocals EXCEPT !.tokenAud = tokenId.aud], << >>,
               "verifyIdToken")

\* from the body to the call of client.verifyIdToken
oAuthMobile_begin(tokenId, provider) ==
    IF tokenId.kind = "absent"
    THEN Respond(NoLocals, << >>, Failed(400, "Missing token ID"))
    ELSE IF provider = NONE
    THEN Respond(NoLocals, << >>, Failed(400, "Missing provider"))
    ELSE IF toLowerCase(provider) \notin supportedProviders
    THEN Respond(NoLocals, << >>, Failed(400, "Unsupported provider"))
    ELSE IF toLowerCase(provider) # "google"
    THEN Respond(NoLocals, << >>, Failed(400, "Provider not implemented"))
    ELSE IF tokenId.kind \in {"opaque", "badjson"}
    THEN Respond(NoLocals, << >>, Failed(401, "Token decode failed"))
    ELSE IF tokenId.kind = "jsonnull"
    THEN \* tokenPayload.aud of null throws into the outer catch
         Respond(NoLocals, << >>, Failed(500, "Internal server error"))
    ELSE Await("verify", [NoLocals EXCEPT !.tokenAud = tokenId.aud], << >>,
               "verifyIdToken")

\* [process.env.GOOGLE_CLIENT_ID, tokenPayload.aud].filter(Boolean)
allowedAudiences(tokenAud) == {GOOGLE_CLIENT_ID, tokenAud} \ {NONE}

\* client.verifyIdToken({ idToken, audience }): the error message, or NONE
verifyIdToken(idToken, audience) ==
    IF ~idToken.valid THEN "Invalid token signature"
    ELSE IF idToken.aud \notin audience
    THEN "Wrong recipient, payload audience != requiredAudience"
    ELSE NONE

\* verificationError.message.includes("audience")
includesAudience(message) ==
    message = "Wrong recipient, payload audience != requiredAudience"

\* variant of oAuthMobile_verified that does not look for sub and email
oAuthMobile_verified_anyProfile(tokenId, l, g) ==
    LET message == verifyIdToken(tokenId, allowedAudiences(l.tokenAud))
        profile == tokenId.payload
        userProfile ==
            [profile EXCEPT !.name = IF profile.name # NONE THEN profile.name
                                     ELSE profile.email]
    IN  IF message # NONE /\ includesAudience(message)
        THEN Respond(l, g, [Failed(401, "Audience mismatch") EXCEPT
                               !.tokenAudience = l.tokenAud,
                               !.expectedAudience = GOOGLE_CLIENT_ID])
        ELSE IF message # NONE
        THEN Respond(l, g, Failed(401, "Token verification failed"))
        ELSE Await("find", [l EXCEPT !.profile = userProfile], g, "findOne")

\* from the answer of verifyIdToken to the call of User.findOne
oAuthMobile_verified(tokenId, l, g) ==
    LET message == verifyIdToken(tokenId, allowedAudiences(l.tokenAud))
        profile == tokenId.payload
        userProfile ==
            [profile EXCEPT !.name = IF profile.name # NONE THEN profile.name
                                     ELSE profile.email]
    IN  IF message # NONE /\ includesAudience(message)
        THEN Respond(l, g, [Failed(401, "Audience mismatch") EXCEPT
                               !.tokenAudience = l.tokenAud,
                               !.expectedAudience = GOOGLE_CLIENT_ID])
        ELSE IF message # NONE
        THEN Respond(l, g, Failed(401, "Token verification failed"))
        ELSE IF profile.id = NONE \/ profile.email = NONE
        THEN Respond(l, g, Failed(400, "Incomplete profile"))
        ELSE Await("find", [l EXCEPT !.profile = userProfile], g, "findOne")

\* variant of oAuthMobile_found that creates the account with role user, as
\* register does
oAuthMobile_found_roleUser(us, provider, l, g, date) ==
    LET user == findOne(us, l.profile.id) IN
    IF user # NoDoc
    THEN LET u1 == updateExisting(user, l.profile, date)
             u2 == IF u1.provider = NONE
                   THEN [u1 EXCEPT !.provider = toLowerCase(provider)]
                   ELSE u1
         IN  Await("write", [l EXCEPT !.loaded = user, !.user = u2,
                                      !.op = "save"], g, "save")
    ELSE Await("write",
               [l EXCEPT !.user = [newUserData(l.profile) EXCEPT
                                      !.role = "user", !.lastLogin = date,
                                      !.provider = toLowerCase(provider)],
                         !.op = "create"], g, "create")

\* variant of oAuthMobile_found that leaves a missing provider missing, as
\* oauthCallback does
oAuthMobile_found_noBackfill(us, provider, l, g, date) ==
    LET user == findOne(us, l.profile.id) IN
    IF user # NoDoc
    THEN Await("write",
               [l EXCEPT !.loaded = user,
                         !.user = updateExisting(user, l.profile, date),
                         !.op = "save"], g, "save")
    ELSE Await("write",
               [l EXCEPT !.user = [newUserData(l.profile) EXCEPT
                                      !.role = "customer", !.lastLogin = date,
                                      !.provider = toLowerCase(provider)],
                         !.op = "create"], g, "create")

\* from the answer of User.findOne to the call of save or create
oAuthMobile_found(us, provider, l, g, date) ==
    LET user == findOne(us, l.profile.id) IN
    IF user # NoDoc
    THEN LET u1 == updateExisting(user, l.profile, date)
             u2 == IF u1.provider = NONE
                   THEN [u1 EXCEPT !.provider = toLowerCase(provider)]
                   ELSE u1
         IN  Await("write", [l EXCEPT !.loaded = user, !.user = u2,
                                      !.op = "save"], g, "save")
    ELSE Await("write",
               [l EXCEPT !.user = [newUserData(l.profile) EXCEPT
                                      !.role = "customer", !.lastLogin = date,
                                      !.provider = toLowerCase(provider)],
                         !.op = "create"], g, "create")

\* variant of oAuthMobile_catch that sends the message of every error
oAuthMobile_catch_leaky(error, l, g) ==
    Respond(l, g, [Failed(IF error = "ValidationError" THEN 400 ELSE 500,
                          IF error = "ValidationError" THEN "Validation error"
                          ELSE "Internal server error")
                      EXCEPT !.details = "error.message"])

\* the outer catch of oAuthMobile
oAuthMobile_catch(error, l, g) ==
    IF error = "ValidationError"
    THEN Respond(l, g, [Failed(400, "Validation error") EXCEPT
                           !.details = "error.message"])
    ELSE Respond(l, g, Failed(500, "Internal server error"))

\* variant of oAuthMobile_saved that signs tokens for the document in hand
\* whatever the write answered
oAuthMobile_saved_signsAnyway(result, signed, l, g) ==
    IF ~signed
    THEN Respond(l, Append(g, "sign"), Failed(500, "Internal server error"))
    ELSE Respond(l, Append(g, "sign"), Success(l.user, l.user.provider))

\* from the answer of save or create to the response
oAuthMobile_saved(result, signed, l, g) ==
    IF result.err # NONE
    THEN oAuthMobile_catch(result.err, l, g)
    ELSE IF ~signed
    THEN \* the error of Token.sign is not a ValidationError
         Respond([l EXCEPT !.user = result.doc], Append(g, "sign"),
                 Failed(500, "Internal server error"))
    ELSE Respond([l EXCEPT !.user = result.doc], Append(g, "sign"),
                 Success(result.doc, result.doc.provider))

oAuthMobile_Start(r) ==
    /\ Receive(r)
    /\ \E body \in MobileBodies :
          /\ req' = [req EXCEPT ![r] = [NoRequest EXCEPT
                        !.h = "oAuthMobile", !.tokenId = body.tokenId,
                        !.provider = body.provider]]
          /\ Step(r, oAuthMobile_begin(body.tokenId, body.provider))
    /\ UNCHANGED <<models, signer, store, users, now>>

oAuthMobile_Verified(r) ==
    /\ req[r].h = "oAuthMobile" /\ pc[r] = "verify"
    /\ Step(r, oAuthMobile_verified(req[r].tokenId, loc[r], log[r]))
    /\ UNCHANGED <<models, signer, store, users, now, started, req>>

oAuthMobile_Found(r) ==
    /\ req[r].h = "oAuthMobile" /\ pc[r] = "find"
    /\ \E fault \in StoreFaults(store) :
          IF fault
          THEN /\ Step(r, oAuthMobile_catch("MongoNetworkError", loc[r], log[r]))
               /\ now' = now
          ELSE /\ Step(r, oAuthMobile_found(users, req[r].provider, loc[r],
                                            log[r], now))
               /\ now' = now + 1
    /\ UNCHANGED <<models, signer, store, users, started, req>>

oAuthMobile_Saved(r) ==
    /\ req[r].h = "oAuthMobile" /\ pc[r] = "write"
    /\ \E fault \in StoreFaults(store) :
          IF fault
          THEN /\ users' = users
               /\ Step(r, oAuthMobile_catch("MongoNetworkError", loc[r], log[r]))
          ELSE /\ users' = write(users, loc[r]).users
               /\ \E signed \in SignOutcomes(signer) :
                     Step(r, oAuthMobile_saved(write(users, loc[r]), signed,
                                               loc[r], log[r]))
    /\ UNCHANGED <<models, signer, store, now, started, req>>

-----------------------------------------------------------------------------
(* AuthController.oauthCallback *)

\* what exchangeCodeForToken resolves to: null when the token endpoint
\* rejects the code, else the body of the answer, with or without access_token
TokenData == {"null", "no access_token", "access_token"}

\* what getUserProfile resolves to: null on a non-success answer, which a
\* request without a valid access token always gets
UserInfo(access_token) ==
    IF access_token = NONE THEN {NoProfile}
    ELSE {NoProfile} \cup CompleteProfiles \cup IncompleteProfiles

\* variant of oauthCallback_begin that exchanges the code before looking at it
oauthCallback_begin_unchecked(code) ==
    Await("exchange", NoLocals, << >>, "exchangeCodeForToken")

\* from the body to the call of exchangeCodeForToken
oauthCallback_begin(code) ==
    IF code = NONE
    THEN Respond(NoLocals, << >>, Failed(400, "Missing authorization code"))
    ELSE Await("exchange", NoLocals, << >>, "exchangeCodeForToken")

\* from the answer of exchangeCodeForToken to the call of getUserProfile
oauthCallback_exchanged(tokenData, l, g) ==
    IF tokenData = "null"
    THEN Respond([l EXCEPT !.tokenData = tokenData], g,
                 Failed(400, "Token exchange failed"))
    ELSE Await("userinfo",
               [l EXCEPT !.tokenData = tokenData,
                         !.access_token =
                    IF tokenData = "access_token" THEN "ya29" ELSE NONE],
               g, "getUserProfile")

\* variant of oauthCallback_profiled that takes any answer for a profile
oauthCallback_profiled_unchecked(profile, l, g) ==
    Await("find", [l EXCEPT !.profile = profile], g, "findOne")

\* from the answer of getUserProfile to the call of User.findOne
oauthCallback_profiled(profile, l, g) ==
    IF profile = NoProfile
    THEN Respond(l, g, Failed(400, "Profile fetch failed"))
    ELSE Await("find", [l EXCEPT !.profile = profile], g, "findOne")

\* from the answer of User.findOne to the call of save or create
oauthCallback_found(us, l, g, date) ==
    LET user == findOne(us, l.profile.id) IN
    IF user # NoDoc
    THEN Await("write",
               [l EXCEPT !.loaded = user,
                         !.user = updateExisting(user, l.profile, date),
                         !.op = "save"], g, "save")
    ELSE Await("write",
               [l EXCEPT !.user = [newUserData(l.profile) EXCEPT
                                      !.role = "customer", !.lastLogin = date],
                         !.op = "create"], g, "create")

\* the catch of oauthCallback
oauthCallback_catch(error, l, g) ==
    Respond(l, g, Failed(500, "Internal server error"))

\* variant of oauthCallback_saved that answers 200 without tokens when
\* Token.sign throws
oauthCallback_saved_swallowed(result, signed, l, g) ==
    IF result.err # NONE
    THEN Respond(l, g, Failed(500, "Internal server error"))
    ELSE IF ~signed
    THEN Respond([l EXCEPT !.user = result.doc], Append(g, "sign"),
                 [Failed(200, NONE) EXCEPT !.user = Summary(result.doc, NONE)])
    ELSE Respond([l EXCEPT !.user = result.doc], Append(g, "sign"),
                 Success(result.doc, NONE))

\* from the answer of save or create to the response
oauthCallback_saved(result, signed, l, g) ==
    IF result.err # NONE
    THEN oauthCallback_catch(result.err, l, g)
    ELSE IF ~signed
    THEN Respond([l EXCEPT !.user = result.doc], Append(g, "sign"),
                 Failed(500, "Internal server error"))
    ELSE Respond([l EXCEPT !.user = result.doc], Append(g, "sign"),
                 Success(result.doc, NONE))

oauthCallback_Start(r) ==
    /\ Receive(r)
    /\ \E code \in {NONE, "4/0Ab"} :
          /\ req' = [req EXCEPT ![r] = [NoRequest EXCEPT
                        !.h = "oauthCallback", !.code = code]]
          /\ Step(r, oauthCallback_begin(code))
    /\ UNCHANGED <<models, signer, store, users, now>>

oauthCallback_Exchanged(r) ==
    /\ req[r].h = "oauthCallback" /\ pc[r] = "exchange"
    /\ \E tokenData \in TokenData :
          Step(r, oauthCallback_exchanged(tokenData, loc[r], log[r]))
    /\ UNCHANGED <<models, signer, store, users, now, started, req>>

oauthCallback_Profiled(r) ==
    /\ req[r].h = "oauthCallback" /\ pc[r] = "userinfo"
    /\ \E profile \in UserInfo(loc[r].access_token) :
          Step(r, oauthCallback_profiled(profile, loc[r], log[r]))
    /\ UNCHANGED <<models, signer, store, users, now, started, req>>

oauthCallback_Found(r) ==
    /\ req[r].h = "oauthCallback" /\ pc[r] = "find"
    /\ \E fault \in StoreFaults(store) :
          IF fault
          THEN /\ Step(r, oauthCallback_catch("MongoNetworkError", loc[r],
                                              log[r]))
               /\ now' = now
          ELSE /\ Step(r, oauthCallback_found(users, loc[r], log[r], now))
               /\ now' = now + 1
    /\ UNCHANGED <<models, signer, store, users, started, req>>

oauthCallback_Saved(r) ==
    /\ req[r].h = "oauthCallback" /\ pc[r] = "write"
    /\ \E fault \in StoreFaults(store) :
          IF fault
          THEN /\ users' = users
               /\ Step(r, oauthCallback_catch("MongoNetworkError", loc[r],
                                              log[r]))
          ELSE /\ users' = write(users, loc[r]).users
               /\ \E signed \in SignOutcomes(signer) :
                     Step(r, oauthCallback_saved(write(users, loc[r]), signed,
                                                 loc[r], log[r]))
    /\ UNCHANGED <<models, signer, store, now, started, req>>

-----------------------------------------------------------------------------
(* The verify callback of the passport GoogleStrategy *)

\* from the profile passport hands over to the call of User.findOne.
\* newUser is built before the try: for a profile without photos, without
\* emails or without name (passport sets each only when Google sent it) the
\* property access throws, the promise of the callback rejects and done is
\* never called.
GoogleStrategy_begin(profile) ==
    IF \/ profile.picture = NONE
       \/ profile.email = NONE
       \/ (profile.given_name = NONE /\ profile.family_name = NONE)
    THEN [pc |-> "hung", loc |-> NoLocals, res |-> NoResponse, log |-> << >>]
    ELSE Await("find", [NoLocals EXCEPT !.profile = profile], << >>,
               "findOne")

\* from the answer of User.findOne to the call of save or create
GoogleStrategy_found(us, l, g, date) ==
    LET user == findOne(us, l.profile.id) IN
    IF user # NoDoc
    THEN Await("write",
               [l EXCEPT !.loaded = user,
                         !.user = updateExisting(user, l.profile, date),
                         !.op = "save"], g, "save")
    ELSE Await("write",
               [l EXCEPT !.user = newUserData(l.profile), !.op = "create"],
               g, "create")

\* from the answer of save or create to done(null, user) or done(err, null);
\* the callback sends no response itself (status stays 0)
GoogleStrategy_saved(result, l, g) ==
    IF result.err # NONE
    THEN Respond(l, g, Failed(0, result.err))
    ELSE Respond([l EXCEPT !.user = result.doc], g,
                 [NoResponse EXCEPT !.user = Summary(result.doc, NONE)])

GoogleStrategy_Start(r) ==
    /\ Receive(r)
    /\ \E profile \in CompleteProfiles :
          /\ req' = [req EXCEPT ![r] = [NoRequest EXCEPT
                        !.h = "GoogleStrategy", !.profile = profile]]
          /\ Step(r, GoogleStrategy_begin(profile))
    /\ UNCHANGED <<models, signer, store, users, now>>

GoogleStrategy_Found(r) ==
    /\ req[r].h = "GoogleStrategy" /\ pc[r] = "find"
    /\ \E fault \in StoreFaults(store) :
          IF fault
          THEN /\ Step(r, Respond(loc[r], log[r],
                                  Failed(0, "MongoNetworkError")))
               /\ now' = now
          ELSE /\ Step(r, GoogleStrategy_found(users, loc[r], log[r], now))
               /\ now' = now + 1
    /\ UNCHANGED <<models, signer, store, users, started, req>>

GoogleStrategy_Saved(r) ==
    /\ req[r].h = "GoogleStrategy" /\ pc[r] = "write"
    /\ \E fault \in StoreFaults(store) :
          IF fault
          THEN /\ users' = users
               /\ Step(r, Respond(loc[r], log[r],
                                  Failed(0, "MongoNetworkError")))
          ELSE /\ users' = write(users, loc[r]).users
               /\ Step(r, GoogleStrategy_saved(write(users, loc[r]), loc[r],
                                               log[r]))
    /\ UNCHANGED <<models, signer, store, now, started, req>>

-----------------------------------------------------------------------------
(* AuthController.register *)

\* sha256(password) on the strings of the model
sha256(password) == IF password = "pw" THEN "5e88" ELSE password

\* from the body to the call of User.findOne (the error strings are written
\* here without their diacritics)
register_begin(body) ==
    IF body.email = NONE \/ body.password = NONE \/ body.name = NONE
    THEN Respond(NoLocals, << >>, Failed(500, "Thieu thong tin"))
    ELSE Await("find", NoLocals, << >>, "findOne")

\* from the answer of User.findOne to the call of User.create
register_found(us, body, l, g) ==
    LET checkUsername == findOneByEmail(us, body.email) IN
    IF checkUsername # NoDoc
    THEN Respond([l EXCEPT !.loaded = checkUsername], g,
                 Failed(500, "Tai khoan da ton tai!"))
    ELSE Await("write",
               [l EXCEPT !.user = [NoDoc EXCEPT
                                      !.password = sha256(body.password),
                                      !.name = body.name,
                                      !.email = body.email,
                                      !.role = "user"],
                         !.op = "create"], g, "create")

\* from the answer of User.create to the response; the catch answers 400
\* with the error
register_saved(result, l, g) ==
    IF result.err # NONE
    THEN Respond(l, g, Failed(400, result.err))
    ELSE Respond([l EXCEPT !.user = result.doc], g, Failed(200, NONE))

register_Start(r) ==
    /\ Receive(r)
    /\ \E body \in RegisterBodies :
          /\ req' = [req EXCEPT ![r] = [NoRequest EXCEPT
                        !.h = "register", !.email = body.email,
                        !.name = body.name, !.password = body.password]]
          /\ Step(r, register_begin(body))
    /\ UNCHANGED <<models, signer, store, users, now>>

register_Found(r) ==
    /\ req[r].h = "register" /\ pc[r] = "find"
    /\ \E fault \in StoreFaults(store) :
          IF fault
          THEN Step(r, Respond(loc[r], log[r],
                               Failed(400, "MongoNetworkError")))
          ELSE Step(r, register_found(users, req[r], loc[r], log[r]))
    /\ UNCHANGED <<models, signer, store, users, now, started, req>>

register_Saved(r) ==
    /\ req[r].h = "register" /\ pc[r] = "write"
    /\ \E fault \in StoreFaults(store) :
          IF fault
          THEN /\ users' = users
               /\ Step(r, Respond(loc[r], log[r],
                                  Failed(400, "MongoNetworkError")))
          ELSE /\ users' = write(users, loc[r]).users
               /\ Step(r, register_saved(write(users, loc[r]), loc[r], log[r]))
    /\ UNCHANGED <<models, signer, store, now, started, req>>

-----------------------------------------------------------------------------
(* AuthController.login *)

\* the bodies of POST /auth/signin
LoginBodies ==
    {[email |-> "a@x.com", password |-> NONE],
     [email |-> "a@x.com", password |-> "pw"],
     [email |-> "b@x.com", password |-> "pw"],
     [email |-> "b@x.com", password |-> "nope"]}

\* password is declared with select: false: a query that does not ask for
\* the field returns the document without it
selected(doc) ==
    IF doc = NoDoc THEN NoDoc ELSE [doc EXCEPT !.password = NONE]

\* from the body to the call of User.findOne
login_begin(body) ==
    IF body.email = NONE \/ body.password = NONE
    THEN Respond(NoLocals, << >>, Failed(500, "Thieu thong tin"))
    ELSE Await("find", NoLocals, << >>, "findOne")

\* from the answer of User.findOne({ email }) to the response: the hash of
\* the password of the body is compared with user.password. The handler has
\* no try: a Token.sign that throws leaves the request without a response.
login_found(us, body, signed, l, g) ==
    LET user == selected(findOneByEmail(us, body.email)) IN
    IF user = NoDoc
    THEN Respond(l, g, Failed(500, "Tai khoan hoac mat khau sai"))
    ELSE IF sha256(body.password) = user.password
    THEN IF signed
         THEN Respond([l EXCEPT !.loaded = user, !.user = user],
                      Append(g, "sign"),
                      [NoResponse EXCEPT
                          !.status = 200,
                          !.user.id = user.id,
                          !.tokens = Token_sign([name |-> user.name,
                                                 idUser |-> user.id,
                                                 role |-> user.role])])
         ELSE [pc |-> "hung", loc |-> [l EXCEPT !.loaded = user],
               res |-> NoResponse, log |-> Append(g, "sign")]
    ELSE Respond([l EXCEPT !.loaded = user], g,
                 Failed(401, "Tai khoan hoac mat khau sai"))

login_Start(r) ==
    /\ Receive(r)
    /\ \E body \in LoginBodies :
          /\ req' = [req EXCEPT ![r] = [NoRequest EXCEPT
                        !.h = "login", !.email = body.email,
                        !.password = body.password]]
          /\ Step(r, login_begin(body))
    /\ UNCHANGED <<models, signer, store, users, now>>

\* a findOne that rejects is not caught either
login_Found(r) ==
    /\ req[r].h = "login" /\ pc[r] = "find"
    /\ \E fault \in StoreFaults(store) :
          IF fault
          THEN Step(r, [pc |-> "hung", loc |-> loc[r], res |-> NoResponse,
                        log |-> log[r]])
          ELSE \E signed \in SignOutcomes(signer) :
                  Step(r, login_found(users, req[r], signed, loc[r], log[r]))
    /\ UNCHANGED <<models, signer, store, users, now, started, req>>

-----------------------------------------------------------------------------
(* AuthController.loginWithToken *)

\* a refreshToken that no Token.sign of this server made
ForgedToken ==
    [key |-> "k0", idUser |-> 1, name |-> "Ann Lee", role |-> "admin"]

\* the bodies of POST /auth/refresh: no refreshToken, a token of a pair some
\* response carried (its refresh token before or after expiry, or its access
\* token), or a forged one
RefreshBodies(rs) ==
    {[refreshToken |-> NoTokens.refreshToken, late |-> FALSE],
     [refreshToken |-> ForgedToken, late |-> FALSE]}
    \cup {[refreshToken |-> rs[s].tokens.refreshToken, late |-> e] :
            s \in {x \in Slots : rs[x].tokens # NoTokens}, e \in BOOLEAN}
    \cup {[refreshToken |-> rs[s].tokens.accessToken, late |-> FALSE] :
            s \in {x \in Slots : rs[x].tokens # NoTokens}}

\* variant of loginWithToken_handler that reads another field of the body
\* than the client sends
loginWithToken_handler_wrongField(refreshToken, late) ==
    Respond(NoLocals, << >>, Failed(500, "Thieu thong tin"))

\* the whole handler (it awaits nothing). The catch rethrows what
\* Token.refresh throws: the promise of the handler rejects and no response
\* is sent.
loginWithToken_handler(refreshToken, late) ==
    IF refreshToken = NoTokens.refreshToken
    THEN Respond(NoLocals, << >>, Failed(500, "Thieu thong tin"))
    ELSE LET token == Token_refresh(refreshToken, late) IN
         IF token.err # NONE
         THEN [pc |-> "hung", loc |-> NoLocals, res |-> NoResponse,
               log |-> <<"refresh">>]
         ELSE Respond(NoLocals, <<"refresh">>,
                      [Failed(200, NONE) EXCEPT !.tokens = token.tokens])

loginWithToken(r) ==
    /\ Receive(r)
    /\ \E body \in RefreshBodies(res) :
          /\ req' = [req EXCEPT ![r] = [NoRequest EXCEPT
                        !.h = "loginWithToken",
                        !.refreshToken = body.refreshToken,
                        !.late = body.late]]
          /\ Step(r, loginWithToken_handler(body.refreshToken, body.late))
    /\ UNCHANGED <<models, signer, store, users, now>>

-----------------------------------------------------------------------------
(* The auth middleware in front of the /user routes *)

\* an Authorization header: parts is the length of authorization.split(" ")
\* (0: no header), scheme is parts[0], token is parts[1]
Authorization(parts, scheme, token) ==
    [parts |-> parts, scheme |-> scheme, token |-> token]

\* the headers of a request to /user: none, one part, three parts, an empty
\* token, another scheme, a forged token, and the tokens some response carried
AuthHeaders(rs) ==
    LET issued == {rs[s].tokens : s \in {x \in Slots : rs[x].tokens # NoTokens}}
    IN  {[authorization |-> Authorization(0, NONE, NoTokens.accessToken),
          late |-> FALSE],
         [authorization |-> Authorization(1, "Bearer", NoTokens.accessToken),
          late |-> FALSE],
         [authorization |-> Authorization(2, "Bearer", NoTokens.accessToken),
          late |-> FALSE],
         [authorization |-> Authorization(2, "Bearer", ForgedToken),
          late |-> FALSE]}
        \cup {[authorization |-> Authorization(n, sc, t.accessToken),
               late |-> FALSE] :
                  t \in issued, n \in {2, 3}, sc \in {"Bearer", "Basic"}}
        \cup {[authorization |-> Authorization(2, "Bearer", t.accessToken),
               late |-> TRUE] : t \in issued}
        \cup {[authorization |-> Authorization(2, "Bearer", t.refreshToken),
               late |-> FALSE] : t \in issued}

\* return res.status(401).json({ message }): next is not called and
\* req.decoded is not set
Unauthorized(message) ==
    [pc |-> "done", loc |-> NoLocals, res |-> Failed(401, message),
     log |-> << >>, decoded |-> NoTokens.accessToken]

\* variant of auth that verifies the token with the refresh key
auth_refreshKey(authorization, late) ==
    IF authorization.parts = 0
    THEN Unauthorized("Authorization header is required")
    ELSE IF authorization.parts # 2 \/ authorization.scheme # "Bearer"
    THEN Unauthorized("Authorization header format must be: Bearer <token>")
    ELSE IF authorization.token = NoTokens.accessToken
    THEN Unauthorized("Access token is required")
    ELSE LET err == jwt_verify(authorization.token, key_refresh, late) IN
         IF err = "TokenExpiredError" THEN Unauthorized("Token has expired")
         ELSE IF err = "JsonWebTokenError" THEN Unauthorized("Invalid token")
         ELSE IF err # NONE THEN Unauthorized("Token verification failed")
         ELSE [pc |-> "next", loc |-> NoLocals, res |-> NoResponse,
               log |-> <<"next">>, decoded |-> authorization.token]

\* variant of auth that does not look at the scheme
auth_anyScheme(authorization, late) ==
    IF authorization.parts = 0
    THEN Unauthorized("Authorization header is required")
    ELSE IF authorization.parts # 2
    THEN Unauthorized("Authorization header format must be: Bearer <token>")
    ELSE IF authorization.token = NoTokens.accessToken
    THEN Unauthorized("Access token is required")
    ELSE LET err == jwt_verify(authorization.token, key_access, late) IN
         IF err = "TokenExpiredError" THEN Unauthorized("Token has expired")
         ELSE IF err = "JsonWebTokenError" THEN Unauthorized("Invalid token")
         ELSE IF err # NONE THEN Unauthorized("Token verification failed")
         ELSE [pc |-> "next", loc |-> NoLocals, res |-> NoResponse,
               log |-> <<"next">>, decoded |-> authorization.token]

\* the middleware (it awaits nothing: jwt.verify calls back at once)
auth(authorization, late) ==
    IF authorization.parts = 0
    THEN Unauthorized("Authorization header is required")
    ELSE IF authorization.parts # 2 \/ authorization.scheme # "Bearer"
    THEN Unauthorized("Authorization header format must be: Bearer <token>")
    ELSE IF authorization.token = NoTokens.accessToken
    THEN Unauthorized("Access token is required")
    ELSE LET err == jwt_verify(authorization.token, key_access, late) IN
         IF err = "TokenExpiredError" THEN Unauthorized("Token has expired")
         ELSE IF err = "JsonWebTokenError" THEN Unauthorized("Invalid token")
         ELSE IF err # NONE THEN Unauthorized("Token verification failed")
         ELSE [pc |-> "next", loc |-> NoLocals, res |-> NoResponse,
               log |-> <<"next">>, decoded |-> authorization.token]

\* a request to /user arrives and goes through the middleware
auth_Start(r) ==
    /\ Receive(r)
    /\ \E h \in AuthHeaders(res) :
          LET o == auth(h.authorization, h.late) IN
          /\ req' = [req EXCEPT ![r] = [NoRequest EXCEPT
                        !.h = "auth", !.authorization = h.authorization,
                        !.late = h.late, !.decoded = o.decoded]]
          /\ Step(r, o)
    /\ UNCHANGED <<models, signer, store, users, now>>

\* routes.use("/user", auth, UserRoute): the route handler runs when the
\* middleware has called next
UserRoute(r) ==
    /\ req[r].h = "auth" /\ pc[r] = "next"
    /\ Step(r, Respond(loc[r], Append(log[r], "UserRoute"), Failed(200, NONE)))
    /\ UNCHANGED <<models, signer, store, users, now, started, req>>

-----------------------------------------------------------------------------
(* Specification *)

Next ==
    \E r \in Slots :
        \/ oAuthMobile_Start(r)
        \/ oAuthMobile_Verified(r)
        \/ oAuthMobile_Found(r)
        \/ oAuthMobile_Saved(r)
        \/ oauthCallback_Start(r)
        \/ oauthCallback_Exchanged(r)
        \/ oauthCallback_Profiled(r)
        \/ oauthCallback_Found(r)
        \/ oauthCallback_Saved(r)
        \/ GoogleStrategy_Start(r)
        \/ GoogleStrategy_Found(r)
        \/ GoogleStrategy_Saved(r)
        \/ register_Start(r)
        \/ register_Found(r)
        \/ register_Saved(r)
        \/ login_Start(r)
        \/ login_Found(r)
        \/ loginWithToken(r)
        \/ auth_Start(r)
        \/ UserRoute(r)

Spec == Init /\ [][Next]_vars

\* the server with a Token.sign that may throw
SpecSignFails == InitSignFails /\ [][Next]_vars

\* the server with a database connection that may fail
SpecStoreFails == InitStoreFails /\ [][Next]_vars

\* an outbound call of request r (axios.post, axios.get, verifyIdToken) gets no
\* answer: the calls are made without a timeout, so the await never resumes
ProviderSilent(r) ==
    /\ pc[r] \in {"exchange", "userinfo", "verify"}
    /\ pc' = [pc EXCEPT ![r] = "blocked"]
    /\ UNCHANGED <<models, signer, store, users, now, started, req, loc, res,
                   log>>

NextSilent == Next \/ \E r \in Slots : ProviderSilent(r)

\* the server facing providers that may stay silent; whatever the event loop
\* can run, it runs
SpecSilentProvider == Init /\ [][NextSilent]_vars /\ WF_vars(NextSilent)

-----------------------------------------------------------------------------
(* The account lock of the user model: incrementLoginAttempts,               *)
(* resetLoginAttempts. A caller loads the user and calls the methods on the  *)
(* document it holds; both methods send an updateOne and leave the document  *)
(* in memory as it was loaded.                                               *)

\* calls of model methods in one behaviour
MaxCalls == 5

\* the last tick of the clock
MaxClock == 4

\* the lock of 2 hours, in ticks of the clock
LockTime == 2

\* the calls so far and a call of method op by caller c with the argument
\* arg that returned value ("throws" when it threw)
Call(op, c, arg, value) ==
    Append(returned, [op |-> op, by |-> c, arg |-> arg, value |-> value])

\* the document a query hands over: defaults fill the fields not stored
hydrate(stored) ==
    [loaded |-> TRUE,
     loginAttempts |-> IF stored.loginAttempts = Unset THEN 0
                       ELSE stored.loginAttempts,
     lockUntil |-> stored.lockUntil]

\* the virtual isLocked
isLocked(this, date) == this.lockUntil # Unset /\ this.lockUntil > date

\* $inc: { loginAttempts: 1 } on the stored document
inc(stored) ==
    [stored EXCEPT !.loginAttempts = IF @ = Unset THEN 1 ELSE @ + 1]

\* this.incrementLoginAttempts(): the stored document after the updateOne
\* the method sends, decided on the fields of the document in memory
incrementLoginAttempts(this, stored, date) ==
    IF this.lockUntil # Unset /\ this.lockUntil < date
    THEN [stored EXCEPT !.loginAttempts = 1, !.lockUntil = Unset]
    ELSE IF this.loginAttempts + 1 >= 5 /\ ~isLocked(this, date)
    THEN [inc(stored) EXCEPT !.lockUntil = date + LockTime]
    ELSE inc(stored)

\* this.resetLoginAttempts(): $unset of both fields
resetLoginAttempts(stored) ==
    [stored EXCEPT !.loginAttempts = Unset, !.lockUntil = Unset]

\* User.findById by caller c
User_findById(c) ==
    /\ held' = [held EXCEPT ![c] = hydrate(account)]
    /\ held'[c] # held[c]
    /\ UNCHANGED <<server, clock, returned, account, verifications,
                   sessions, addresses, payment>>

IncrementLoginAttempts(c) ==
    /\ held[c] # NoCopy
    /\ Len(returned) < MaxCalls
    /\ account' = incrementLoginAttempts(held[c], account, clock)
    /\ returned' = Call("incrementLoginAttempts", c, NONE, NONE)
    /\ UNCHANGED <<server, clock, held, verifications, sessions, addresses,
                   payment>>

ResetLoginAttempts(c) ==
    /\ held[c] # NoCopy
    /\ Len(returned) < MaxCalls
    /\ account' = resetLoginAttempts(account)
    /\ returned' = Call("resetLoginAttempts", c, NONE, NONE)
    /\ UNCHANGED <<server, clock, held, verifications, sessions, addresses,
                   payment>>

\* time passes
Tick ==
    /\ clock < MaxClock
    /\ clock' = clock + 1
    /\ UNCHANGED <<server, held, returned, account, verifications, sessions,
                   addresses, payment>>

InitLock == ServerAtRest /\ ModelsAtRest

NextLock ==
    \/ \E c \in Callers :
          \/ User_findById(c)
          \/ IncrementLoginAttempts(c)
          \/ ResetLoginAttempts(c)
    \/ Tick

\* callers working on the lock of one account
SpecLock == InitLock /\ [][NextLock]_vars

-----------------------------------------------------------------------------
(* The email verification model: verify, expire, regenerateToken on the      *)
(* document a caller holds. A token is a number; crypto.randomBytes gives a  *)
(* token no verification has had before.                                     *)

\* the hours until a verification of type registration expires, in ticks of
\* the clock
ExpiryTime == 3

\* a verification document
Verification(user, type, token, maxAttempts, expiresAt) ==
    [loaded |-> TRUE, user |-> user, type |-> type, token |-> token,
     isUsed |-> FALSE, isExpired |-> FALSE, attempts |-> 0,
     maxAttempts |-> maxAttempts, expiresAt |-> expiresAt,
     verifiedAt |-> Unset]

\* emailVerificationSchema.pre('save') for a document that has its token and
\* its expiresAt
preSaveVerification(this, date) ==
    IF this.expiresAt < date THEN [this EXCEPT !.isExpired = TRUE] ELSE this

\* this.isValid()
isValid(this, date) ==
    /\ ~this.isUsed
    /\ ~this.isExpired
    /\ this.expiresAt > date
    /\ this.attempts < this.maxAttempts

\* variant of verify that skips the isValid check
verify_unchecked(this, providedToken, date) ==
    LET counted == [this EXCEPT !.attempts = @ + 1] IN
    IF counted.token # providedToken
    THEN [value |-> "false",
          doc |-> preSaveVerification(
                     [counted EXCEPT !.isExpired =
                         (counted.attempts >= counted.maxAttempts) \/ @],
                     date)]
    ELSE [value |-> "true",
          doc |-> preSaveVerification(
                     [counted EXCEPT !.isUsed = TRUE, !.verifiedAt = date],
                     date)]

\* this.verify(providedToken): what the call returns ("throws" when it
\* throws) and the document after it, which is also what save() stored
verify(this, providedToken, date) ==
    IF ~isValid(this, date)
    THEN [value |-> "throws", doc |-> this]
    ELSE LET counted == [this EXCEPT !.attempts = @ + 1] IN
         IF counted.token # providedToken
         THEN [value |-> "false",
               doc |-> preSaveVerification(
                          [counted EXCEPT !.isExpired =
                              (counted.attempts >= counted.maxAttempts) \/ @],
                          date)]
         ELSE [value |-> "true",
               doc |-> preSaveVerification(
                          [counted EXCEPT !.isUsed = TRUE,
                                          !.verifiedAt = date],
                          date)]

\* this.expire()
expire(this, date) ==
    [value |-> "saved",
     doc |-> preSaveVerification([this EXCEPT !.isExpired = TRUE], date)]

\* this.regenerateToken(), fresh being the token randomBytes gives
regenerateToken(this, fresh, date) ==
    IF this.isUsed
    THEN [value |-> "throws", doc |-> this]
    ELSE [value |-> "saved",
          doc |-> preSaveVerification(
                     [this EXCEPT !.token = fresh, !.attempts = 0,
                                  !.isExpired = FALSE,
                                  !.expiresAt = date + ExpiryTime],
                     date)]

\* the tokens the verification has had so far are 1..token; 0 was never one
ProvidedTokens(this) == 0..this.token

\* caller c calls verify on the document it holds; save() stores it
Verify(c) ==
    /\ held[c] # NoCopy
    /\ Len(returned) < MaxCalls
    /\ \E providedToken \in ProvidedTokens(held[c]) :
          LET o == verify(held[c], providedToken, clock) IN
          /\ held' = [held EXCEPT ![c] = o.doc]
          /\ verifications' = [verifications EXCEPT ![1] = o.doc]
          /\ returned' = Call("verify", c, providedToken, o.value)
    /\ UNCHANGED <<server, clock, account, sessions, addresses, payment>>

Expire(c) ==
    /\ held[c] # NoCopy
    /\ Len(returned) < MaxCalls
    /\ LET o == expire(held[c], clock) IN
          /\ held' = [held EXCEPT ![c] = o.doc]
          /\ verifications' = [verifications EXCEPT ![1] = o.doc]
          /\ returned' = Call("expire", c, 0, o.value)
    /\ UNCHANGED <<server, clock, account, sessions, addresses, payment>>

RegenerateToken(c) ==
    /\ held[c] # NoCopy
    /\ Len(returned) < MaxCalls
    /\ LET o == regenerateToken(held[c], held[c].token + 1, clock) IN
          /\ held' = [held EXCEPT ![c] = o.doc]
          /\ verifications' = [verifications EXCEPT ![1] = o.doc]
          /\ returned' = Call("regenerateToken", c, 0, o.value)
    /\ UNCHANGED <<server, clock, account, sessions, addresses, payment>>

\* one verification, in the store and in the hands of caller c1
InitVerify ==
    /\ ServerAtRest
    /\ clock = 0
    /\ \E maxAttempts \in {1, 3} :
          /\ verifications
                = <<Verification("u1", "registration", 1, maxAttempts,
                                 ExpiryTime)>>
          /\ held = [c \in Callers |->
                        IF c = "c1" THEN verifications[1] ELSE NoCopy]
    /\ returned = NoCall
    /\ account = NoAccount
    /\ sessions = << >>
    /\ addresses = << >>
    /\ payment = NoPayment

NextVerify ==
    \/ Verify("c1")
    \/ Expire("c1")
    \/ RegenerateToken("c1")
    \/ Tick

\* a sequence of calls on one verification
SpecVerify == InitVerify /\ [][NextVerify]_vars

-----------------------------------------------------------------------------
(* EmailVerification.createVerification: updateMany, then save of a new      *)
(* document, with an await between the two.                                  *)

\* the types createVerification is called with
VerificationTypes == {"registration", "password_reset"}

\* options.expiryHours: not given (Unset), or a number of ticks
ExpiryOptions == {Unset, 1}

\* updateMany({ user, type, isUsed: false }, { isExpired: true })
expireUnused(vs, user, type) ==
    [i \in 1..Len(vs) |->
        IF vs[i].user = user /\ vs[i].type = type /\ ~vs[i].isUsed
        THEN [vs[i] EXCEPT !.isExpired = TRUE]
        ELSE vs[i]]

\* new this({ user, email, type, ..., maxAttempts: options.maxAttempts || 3 })
\* and the assignment of expiresAt when options.expiryHours is given: the
\* document has no token
newVerification(user, type, expiryHours, date) ==
    Verification(user, type, Unset, 3,
                 IF expiryHours = Unset THEN Unset ELSE date + expiryHours)

\* the validation save() runs before the pre('save') hooks: token and
\* expiresAt are required
validateVerification(this) == this.token # Unset /\ this.expiresAt # Unset

\* emailVerificationSchema.pre('save') for a new document: a missing token
\* and a missing expiresAt are filled in
preSaveGenerated(this, fresh, date) ==
    preSaveVerification(
        [this EXCEPT !.token = IF @ = Unset THEN fresh ELSE @,
                     !.expiresAt = IF @ = Unset THEN date + ExpiryTime ELSE @],
        date)

\* verification.save() of a new document
saveVerification(vs, this, fresh, date) ==
    IF ~validateVerification(this)
    THEN [value |-> "throws", vs |-> vs]
    ELSE [value |-> "saved",
          vs |-> Append(vs, preSaveGenerated(this, fresh, date))]

\* from the call to the await of updateMany: the caller holds the arguments
CreateVerification_Start(c) ==
    /\ held[c] = NoCopy
    /\ Len(returned) + Cardinality({d \in Callers : held[d] # NoCopy})
          < MaxCalls
    /\ \E type \in VerificationTypes, expiryHours \in ExpiryOptions :
          held' = [held EXCEPT ![c] =
                      [loaded |-> FALSE, user |-> "u1", type |-> type,
                       expiryHours |-> expiryHours]]
    /\ UNCHANGED <<server, clock, returned, account, verifications, sessions,
                   addresses, payment>>

\* updateMany has run; the call builds the new document and goes on to save()
CreateVerification_Expired(c) ==
    /\ held[c] # NoCopy
    /\ ~held[c].loaded
    /\ verifications' = expireUnused(verifications, held[c].user,
                                     held[c].type)
    /\ held' = [held EXCEPT ![c] =
                   newVerification(held[c].user, held[c].type,
                                   held[c].expiryHours, clock)]
    /\ UNCHANGED <<server, clock, returned, account, sessions, addresses,
                   payment>>

\* save() has run and the call returns or rejects
CreateVerification_Saved(c) ==
    /\ held[c] # NoCopy
    /\ held[c].loaded
    /\ LET o == saveVerification(verifications, held[c],
                                 Len(verifications) + 2, clock) IN
          /\ verifications' = o.vs
          /\ returned' = Call("createVerification", c, 0, o.value)
    /\ held' = [held EXCEPT ![c] = NoCopy]
    /\ UNCHANGED <<server, clock, account, sessions, addresses, payment>>

\* the collection with or without a verification that is active
InitCreateVerification ==
    /\ ServerAtRest
    /\ clock = 0
    /\ held = [c \in Callers |-> NoCopy]
    /\ returned = NoCall
    /\ verifications
          \in {<< >>,
               <<Verification("u1", "registration", 1, 3, ExpiryTime)>>}
    /\ account = NoAccount
    /\ sessions = << >>
    /\ addresses = << >>
    /\ payment = NoPayment

NextCreateVerification ==
    \/ \E c \in Callers :
          \/ CreateVerification_Start(c)
          \/ CreateVerification_Expired(c)
          \/ CreateVerification_Saved(c)
    \/ Tick

\* callers creating verifications for one user
SpecCreateVerification ==
    InitCreateVerification /\ [][NextCreateVerification]_vars

-----------------------------------------------------------------------------
(* The session model. A caller gets a session from findBySessionId and calls *)
(* the instance methods on the document it holds; save() writes the paths    *)
(* the method changed.                                                       *)

\* the 24 hours of extend() and authenticate(), in ticks of the clock
SessionTime == 2

SessionIds == {"s1"}

\* a session document; data is the set of its keys
Session(sessionId, user, expiresAt) ==
    [loaded |-> TRUE, sessionId |-> sessionId, user |-> user,
     data |-> IF user = NONE THEN {} ELSE {"cart"},
     isAuthenticated |-> user # NONE, isActive |-> TRUE,
     expiresAt |-> expiresAt, lastAccessedAt |-> 0]

\* the filter { isActive: true, expiresAt: { $gt: new Date() } }
activeUnexpired(doc, date) == doc.isActive /\ doc.expiresAt > date

\* Session.findBySessionId(sessionId): the positions it matches
findBySessionId(ss, sessionId, date) ==
    {i \in 1..Len(ss) :
        ss[i].sessionId = sessionId /\ activeUnexpired(ss[i], date)}

\* Session.findByUser(userId): the positions it matches
findByUser(ss, userId, date) ==
    {i \in 1..Len(ss) : ss[i].user = userId /\ activeUnexpired(ss[i], date)}

\* this.save() of a document that was loaded as `loaded` and is now `this`:
\* the pre('save') hook sets lastAccessedAt, the paths whose value changed
\* are written to the stored document with the same sessionId, and the save
\* throws when that document is gone
saveSession(ss, loaded, this, touched, date) ==
    LET now_ == [this EXCEPT !.lastAccessedAt = date]
        merged(stored) ==
            [stored EXCEPT
                !.user = IF now_.user # loaded.user THEN now_.user ELSE @,
                !.data = IF touched \/ now_.data # loaded.data
                         THEN now_.data ELSE @,
                !.isAuthenticated =
                    IF now_.isAuthenticated # loaded.isAuthenticated
                    THEN now_.isAuthenticated ELSE @,
                !.isActive = IF now_.isActive # loaded.isActive
                             THEN now_.isActive ELSE @,
                !.expiresAt = IF now_.expiresAt # loaded.expiresAt
                              THEN now_.expiresAt ELSE @,
                !.lastAccessedAt = date]
    IN  IF \E i \in 1..Len(ss) : ss[i].sessionId = this.sessionId
        THEN [value |-> "saved", doc |-> now_,
              ss |-> [i \in 1..Len(ss) |->
                         IF ss[i].sessionId = this.sessionId
                         THEN merged(ss[i]) ELSE ss[i]]]
        ELSE [value |-> "throws", doc |-> this, ss |-> ss]

\* this.extend()
extend(ss, this, date) ==
    saveSession(ss, this, [this EXCEPT !.expiresAt = date + SessionTime],
                FALSE, date)

\* this.authenticate(userId)
authenticate(ss, this, userId, date) ==
    saveSession(ss, this,
                [this EXCEPT !.user = userId, !.isAuthenticated = TRUE,
                             !.expiresAt = date + SessionTime],
                FALSE, date)

\* this.logout()
logout(ss, this, date) ==
    saveSession(ss, this,
                [this EXCEPT !.isAuthenticated = FALSE, !.user = NONE,
                             !.data = {}],
                FALSE, date)

\* this.destroy()
destroy(ss, this, date) ==
    saveSession(ss, this, [this EXCEPT !.isActive = FALSE], FALSE, date)

\* this.updateData(key, value), with markModified('data')
updateData(ss, this, key, date) ==
    saveSession(ss, this, [this EXCEPT !.data = @ \cup {key}], TRUE, date)

\* Session.cleanupExpired(): deleteMany of the expired and the inactive
cleanupExpired(ss, date) ==
    SelectSeq(ss, LAMBDA d : ~(d.expiresAt < date \/ ~d.isActive))

\* caller c gets a session from findBySessionId
Session_findBySessionId(c) ==
    /\ \E sessionId \in SessionIds :
          \E i \in findBySessionId(sessions, sessionId, clock) :
              held' = [held EXCEPT ![c] = sessions[i]]
    /\ held'[c] # held[c]
    /\ UNCHANGED <<server, clock, returned, account, verifications, sessions,
                   addresses, payment>>

\* caller c calls the instance method op on the session it holds
SessionCall(c, op, o) ==
    /\ Len(returned) < MaxCalls
    /\ held' = [held EXCEPT ![c] = o.doc]
    /\ sessions' = o.ss
    /\ returned' = Call(op, c, held[c].sessionId, o.value)
    /\ UNCHANGED <<server, clock, account, verifications, addresses, payment>>

Extend(c) ==
    /\ held[c] # NoCopy
    /\ SessionCall(c, "extend", extend(sessions, held[c], clock))

Authenticate(c) ==
    /\ held[c] # NoCopy
    /\ SessionCall(c, "authenticate",
                   authenticate(sessions, held[c], "u1", clock))

Logout(c) ==
    /\ held[c] # NoCopy
    /\ SessionCall(c, "logout", logout(sessions, held[c], clock))

Destroy(c) ==
    /\ held[c] # NoCopy
    /\ SessionCall(c, "destroy", destroy(sessions, held[c], clock))

UpdateData(c) ==
    /\ held[c] # NoCopy
    /\ SessionCall(c, "updateData",
                   updateData(sessions, held[c], "theme", clock))

CleanupExpired ==
    /\ Len(returned) < MaxCalls
    /\ sessions' = cleanupExpired(sessions, clock)
    /\ returned' = Call("cleanupExpired", NONE, NONE, "deleted")
    /\ UNCHANGED <<server, clock, held, account, verifications, addresses,
                   payment>>

\* one anonymous session, which expires after an hour
InitSessions ==
    /\ ServerAtRest
    /\ clock = 0
    /\ held = [c \in Callers |-> NoCopy]
    /\ returned = NoCall
    /\ sessions = <<Session("s1", NONE, 1)>>
    /\ account = NoAccount
    /\ verifications = << >>
    /\ addresses = << >>
    /\ payment = NoPayment

NextSessions ==
    \/ Session_findBySessionId("c1")
    \/ Extend("c1")
    \/ Authenticate("c1")
    \/ Logout("c1")
    \/ Destroy("c1")
    \/ UpdateData("c1")
    \/ CleanupExpired
    \/ Tick

\* a caller working on a session
SpecSessions == InitSessions /\ [][NextSessions]_vars

-----------------------------------------------------------------------------
(* The address model of one user: save() of a new address and setAsDefault() *)
(* on an address a caller holds, each call running to its end before the     *)
(* next one starts.                                                          *)

AddressTypes == {"shipping", "billing", "both"}

\* an address document; _id is its position in the collection
Address(id, type, isDefault) ==
    [loaded |-> TRUE, id |-> id, type |-> type, isDefault |-> isDefault,
     isActive |-> TRUE]

\* updateMany({ user, type: { $in: [this.type, "both"] },
\*              _id: { $ne: this._id } }, { isDefault: false })
unsetOtherDefaults(as, this) ==
    [i \in 1..Len(as) |->
        IF as[i].type \in {this.type, "both"} /\ as[i].id # this.id
        THEN [as[i] EXCEPT !.isDefault = FALSE]
        ELSE as[i]]

\* addressSchema.pre('save'): the collection after the hook
preSaveAddress(as, this) ==
    IF this.isDefault THEN unsetOtherDefaults(as, this) ELSE as

\* this.save(): the hook, then the insert of a new document or the write of
\* isDefault of a stored one
saveAddress(as, this) ==
    LET hooked == preSaveAddress(as, this) IN
    IF this.id > Len(as)
    THEN Append(hooked, this)
    ELSE [hooked EXCEPT ![this.id].isDefault = this.isDefault]

\* this.setAsDefault()
setAsDefault(as, this) ==
    saveAddress(unsetOtherDefaults(as, this),
                [this EXCEPT !.isDefault = TRUE])

\* Address.findDefaultAddress(userId, type): the positions its filter matches
findDefaultAddress(as, type) ==
    {i \in 1..Len(as) :
        /\ as[i].type \in {type, "both"}
        /\ as[i].isDefault
        /\ as[i].isActive}

\* caller c saves a new address
Address_save(c) ==
    /\ Len(returned) < MaxCalls
    /\ \E type \in AddressTypes, isDefault \in BOOLEAN :
          LET this == Address(Len(addresses) + 1, type, isDefault) IN
          /\ addresses' = saveAddress(addresses, this)
          /\ held' = [held EXCEPT ![c] = this]
          /\ returned' = Call("save", c, this.id, "saved")
    /\ UNCHANGED <<server, clock, account, verifications, sessions, payment>>

\* caller c loads an address of the user
Address_findById(c) ==
    /\ \E i \in 1..Len(addresses) :
          held' = [held EXCEPT ![c] = addresses[i]]
    /\ held'[c] # held[c]
    /\ UNCHANGED <<server, clock, returned, account, verifications, sessions,
                   addresses, payment>>

\* caller c calls setAsDefault on the address it holds
SetAsDefault(c) ==
    /\ held[c] # NoCopy
    /\ Len(returned) < MaxCalls
    /\ addresses' = setAsDefault(addresses, held[c])
    /\ held' = [held EXCEPT ![c] = [@ EXCEPT !.isDefault = TRUE]]
    /\ returned' = Call("setAsDefault", c, held[c].id, "saved")
    /\ UNCHANGED <<server, clock, account, verifications, sessions, payment>>

InitAddresses == ServerAtRest /\ ModelsAtRest

NextAddresses ==
    \/ Address_save("c1")
    \/ Address_findById("c1")
    \/ SetAsDefault("c1")

\* a caller working on the addresses of a user
SpecAddresses == InitAddresses /\ [][NextAddresses]_vars

-----------------------------------------------------------------------------
(* The refunds of one payment: processRefund, completeRefund, failRefund on  *)
(* the payment document, each followed by save(). A refundId is the position *)
(* of the refund in payment.refunds.                                         *)

\* the amount of the payment
PaymentAmount == 3

\* the amounts a refund is requested for
RefundAmounts == 1..(PaymentAmount + 1)

RECURSIVE total(_, _)
\* refunds.filter(r => r.status in statuses).reduce((t, r) => t + r.amount, 0)
total(refunds, statuses) ==
    IF refunds = << >> THEN 0
    ELSE (IF Head(refunds).status \in statuses THEN Head(refunds).amount
          ELSE 0) + total(Tail(refunds), statuses)

\* the virtual totalRefunded: the completed refunds
totalRefunded(this) == total(this.refunds, {"completed"})

\* the virtual refundableAmount
refundableAmount(this) == this.amount - totalRefunded(this)

\* this.canBeRefunded()
canBeRefunded(this) ==
    this.status = "completed" /\ refundableAmount(this) > 0

\* this.processRefund(amount)
processRefund(this, amount) ==
    IF ~canBeRefunded(this) \/ amount > refundableAmount(this)
    THEN [value |-> "throws", doc |-> this]
    ELSE [value |-> "saved",
          doc |-> [this EXCEPT
                      !.refunds = Append(@, [amount |-> amount,
                                             status |-> "pending"]),
                      !.status = IF totalRefunded(this) + amount >= this.amount
                                 THEN "refunded"
                                 ELSE "partially_refunded"]]

\* this.completeRefund(refundId)
completeRefund(this, refundId) ==
    IF refundId \notin 1..Len(this.refunds)
    THEN [value |-> "throws", doc |-> this]
    ELSE [value |-> "saved",
          doc |-> [this EXCEPT !.refunds[refundId].status = "completed"]]

\* this.failRefund(refundId)
failRefund(this, refundId) ==
    IF refundId \notin 1..Len(this.refunds)
    THEN [value |-> "throws", doc |-> this]
    ELSE LET failed == [this EXCEPT !.refunds[refundId].status = "failed"]
             totalRefunded_ == total(failed.refunds, {"completed"})
         IN  [value |-> "saved",
              doc |-> [failed EXCEPT
                          !.status = IF totalRefunded_ = 0 THEN "completed"
                                     ELSE IF totalRefunded_ < failed.amount
                                     THEN "partially_refunded"
                                     ELSE @]]

ProcessRefund(c) ==
    /\ Len(returned) < MaxCalls
    /\ \E amount \in RefundAmounts :
          LET o == processRefund(payment, amount) IN
          /\ payment' = o.doc
          /\ returned' = Call("processRefund", c, amount, o.value)
    /\ UNCHANGED <<server, clock, held, account, verifications, sessions,
                   addresses>>

CompleteRefund(c) ==
    /\ Len(returned) < MaxCalls
    /\ \E refundId \in 1..(Len(payment.refunds) + 1) :
          LET o == completeRefund(payment, refundId) IN
          /\ payment' = o.doc
          /\ returned' = Call("completeRefund", c, refundId, o.value)
    /\ UNCHANGED <<server, clock, held, account, verifications, sessions,
                   addresses>>

FailRefund(c) ==
    /\ Len(returned) < MaxCalls
    /\ \E refundId \in 1..(Len(payment.refunds) + 1) :
          LET o == failRefund(payment, refundId) IN
          /\ payment' = o.doc
          /\ returned' = Call("failRefund", c, refundId, o.value)
    /\ UNCHANGED <<server, clock, held, account, verifications, sessions,
                   addresses>>

\* a payment without refunds, completed or still pending
InitPayment ==
    /\ ServerAtRest
    /\ clock = 0
    /\ held = [c \in Callers |-> NoCopy]
    /\ returned = NoCall
    /\ account = NoAccount
    /\ verifications = << >>
    /\ sessions = << >>
    /\ addresses = << >>
    /\ \E status \in {"completed", "pending"} :
          payment = [amount |-> PaymentAmount, status |-> status,
                     refunds |-> << >>]

NextPayment ==
    \/ ProcessRefund("c1")
    \/ CompleteRefund("c1")
    \/ FailRefund("c1")

\* a caller working on the refunds of a payment
SpecPayment == InitPayment /\ [][NextPayment]_vars

-----------------------------------------------------------------------------
(* Properties *)

\* the accounts holding a googleId
withGoogleId(us, googleId) == {i \in 1..Len(us) : us[i].googleId = googleId}

\* request r is at the step that receives the answer of save or create
Saving(r) == pc[r] = "write" /\ pc'[r] = "done"

\* request r came through the handler h
Through(r, h) == req[r].h = h

\* request r has been answered
Finished(r) == pc[r] = "done"

\* C1: the store never holds two accounts with the same googleId.
C1_UniqueGoogleId ==
    \A i, j \in 1..Len(users) :
        (i # j /\ users[i].googleId # NONE)
            => users[i].googleId # users[j].googleId

\* C2: a first-time login whose create lost the race against another
\* first-time login of the same googleId and email (the winner's account is in
\* the store) still ends in a 200 with tokens for the winner's account.
C2_RaceLoserSucceeds ==
    \A r \in Slots :
        (/\ Finished(r)
         /\ req[r].h \in {"oauthCallback", "oAuthMobile"}
         /\ loc[r].op = "create"
         /\ loc[r].profile.id # NONE
         /\ \E i \in 1..Len(users) :
               /\ users[i].googleId = loc[r].profile.id
               /\ users[i].email = toLowerCase(Trim(loc[r].profile.email)))
        => /\ res[r].status = 200
           /\ res[r].tokens # NoTokens
           /\ res[r].user.id \in withGoogleId(users, loc[r].profile.id)

\* C3: an oAuthMobile request whose well-formed, validly signed token has an
\* aud other than GOOGLE_CLIENT_ID ends in 401 "Audience mismatch" carrying
\* both audiences, with no store operation and no tokens.
C3_AudienceMismatchRejected ==
    \A r \in Slots :
        (/\ Finished(r)
         /\ Through(r, "oAuthMobile")
         /\ req[r].provider = "google"
         /\ req[r].tokenId.kind = "jwt"
         /\ req[r].tokenId.valid
         /\ req[r].tokenId.aud # GOOGLE_CLIENT_ID)
        => /\ res[r].status = 401
           /\ res[r].error = "Audience mismatch"
           /\ res[r].tokenAudience = req[r].tokenId.aud
           /\ res[r].expectedAudience = GOOGLE_CLIENT_ID
           /\ res[r].tokens = NoTokens
           /\ log[r] = <<"verifyIdToken">>

\* the login of request r is not interleaved with another login of its
\* googleId: what it read is still what the store holds when it writes
Sequential(r) ==
    IF loc[r].op = "save"
    THEN /\ withGoogleId(users, loc[r].profile.id) = {loc[r].loaded.id}
         /\ users[loc[r].loaded.id] = loc[r].loaded
    ELSE withGoogleId(users, loc[r].profile.id) = {}

\* the account the write of request r is about
Target(r) == IF loc[r].op = "save" THEN loc[r].loaded.id ELSE Len(users) + 1

\* C4 as stated: after a successful login that is sequential to the other
\* logins of its googleId, the account's name, firstName, lastName and avatar
\* equal the snapshot of that login.
C4_SnapshotStoredAsGiven ==
    [][\A r \in Slots :
        (/\ Saving(r)
         /\ res'[r].status = 200
         /\ loc[r].profile.id # NONE
         /\ Sequential(r))
        => LET u == users'[Target(r)]
               p == loc[r].profile
           IN  /\ u.name = p.name
               /\ u.firstName = p.given_name
               /\ u.lastName = p.family_name
               /\ u.avatar = p.picture]_vars

\* C4 (amended): after a successful login that is sequential to the other
\* logins of its googleId, exactly one account has that googleId: the one
\* found, with its id unchanged, or the one created when there was none. Its
\* name, firstName and lastName are the trimmed values of the login's
\* snapshot, its avatar the snapshot's picture, its lastLogin the date of
\* this login, later than the one it had.
C4_LatestSnapshotWins ==
    [][\A r \in Slots :
        (/\ Saving(r)
         /\ write(users, loc[r]).err = NONE
         /\ loc[r].profile.id # NONE
         /\ Sequential(r))
        => LET u == users'[Target(r)]
               p == loc[r].profile
           IN  /\ withGoogleId(users', p.id) = {Target(r)}
               /\ u.id = Target(r)
               /\ u.googleId = p.id
               /\ u.name = Trim(p.name)
               /\ u.firstName = Trim(p.given_name)
               /\ u.lastName = Trim(p.family_name)
               /\ u.avatar = p.picture
               /\ u.lastLogin = loc[r].user.lastLogin
               /\ loc[r].op = "save" =>
                     /\ Len(users') = Len(users)
                     /\ u.lastLogin > loc[r].loaded.lastLogin
               /\ req[r].h # "GoogleStrategy" => res'[r].user.id = u.id]_vars

\* two sequential logins of one googleId with different snapshots: the first
\* created the account, the second updated it, and the account is the only one
\* of that googleId and carries the second snapshot
C4_Witness ==
    /\ Finished("r1") /\ Finished("r2")
    /\ res["r1"].status = 200 /\ res["r2"].status = 200
    /\ loc["r1"].op = "create" /\ loc["r2"].op = "save"
    /\ loc["r1"].profile.id = "g1" /\ loc["r2"].profile.id = "g1"
    /\ loc["r1"].profile.name # loc["r2"].profile.name
    /\ loc["r2"].loaded = loc["r1"].user
    /\ withGoogleId(users, "g1") = {loc["r1"].user.id}
    /\ users[loc["r1"].user.id] = loc["r2"].user
    /\ users[loc["r1"].user.id].name = "Bob"

\* C5: no step changes the role of an existing account or turns its
\* isEmailVerified from true to false.
C5_RoleAndVerificationKept ==
    [][\A i \in 1..Len(users) :
          /\ Len(users') >= Len(users)
          /\ users'[i].role = users[i].role
          /\ users[i].isEmailVerified => users'[i].isEmailVerified]_vars

\* the admin account was updated by two OAuth logins and is still admin
C5_Witness ==
    /\ Len(users) = 1
    /\ users[1].role = "admin"
    /\ users[1].lastLogin = 3
    /\ \A r \in Slots : Finished(r) /\ loc[r].op = "save" /\ loc[r].loaded.id = 1
    /\ res["r1"].status = 200
    /\ res["r2"].user.role = "admin"

\* C6: a first-time oauthCallback login with an exchanged code, a complete
\* profile and no account of that googleId or email persists one new account
\* (googleId, email, isGoogleUser, isEmailVerified, role customer, provider,
\* lastLogin) and responds 200 with the summary and tokens.
C6_CallbackCreatesAccount ==
    \A r \in Slots :
        (/\ Finished(r)
         /\ Through(r, "oauthCallback")
         /\ loc[r].op = "create"
         /\ loc[r].profile \in CompleteProfiles
         /\ loc[r].profile.name # NONE
         /\ isURL(loc[r].profile.picture)
         /\ \A i \in 1..Len(users) :
               users[i].email = toLowerCase(Trim(loc[r].profile.email))
                   => i = res[r].user.id)
        => /\ res[r].status = 200
           /\ res[r].tokens # NoTokens
           /\ res[r].user.id \in 1..Len(users)
           /\ LET u == users[res[r].user.id] IN
                 /\ u.googleId = loc[r].profile.id
                 /\ u.isGoogleUser /\ u.isEmailVerified
                 /\ u.role = "customer"
                 /\ u.provider # NONE
                 /\ u.lastLogin # 0

\* the create of request r meets no account of its googleId or email
FirstTime(r) ==
    /\ loc[r].op = "create"
    /\ withGoogleId(users, loc[r].profile.id) = {}
    /\ ~emailTaken(users, toLowerCase(Trim(loc[r].profile.email)))

\* C7 as stated: a first-time oAuthMobile login whose payload has sub and
\* email creates one account (googleId = sub, provider google, isGoogleUser,
\* isEmailVerified, role customer, name = the payload's name, or the email
\* when the name is absent) and responds 200 with tokens.
C7_MobileCreatesAccountAsGiven ==
    [][\A r \in Slots :
        (Saving(r) /\ Through(r, "oAuthMobile") /\ FirstTime(r))
        => LET u == users'[Len(users')]
               payload == req[r].tokenId.payload
           IN  /\ users' = Append(users, u)
               /\ u.googleId = payload.id
               /\ u.provider = "google"
               /\ u.isGoogleUser /\ u.isEmailVerified
               /\ u.role = "customer"
               /\ u.name = IF payload.name # NONE THEN payload.name
                           ELSE payload.email
               /\ res'[r].status = 200
               /\ res'[r].tokens # NoTokens]_vars

\* C7 (amended): such a login, when its data passes the user schema's
\* validators, creates exactly one account: googleId = sub, provider google,
\* isGoogleUser, isEmailVerified, role customer, name = the trimmed payload
\* name, or the trimmed email when the name is absent; it then responds 200
\* with the summary of that account and tokens for it.
C7_MobileCreatesAccount ==
    [][\A r \in Slots :
        (/\ Saving(r) /\ Through(r, "oAuthMobile") /\ FirstTime(r)
         /\ validate(Document(loc[r].user), TRUE))
        => LET u == users'[Len(users')]
               payload == req[r].tokenId.payload
           IN  /\ users' = Append(users, u)
               /\ u.id = Len(users) + 1
               /\ u.googleId = payload.id
               /\ u.email = toLowerCase(Trim(payload.email))
               /\ u.provider = "google"
               /\ u.isGoogleUser /\ u.isEmailVerified
               /\ u.role = "customer"
               /\ u.name = Trim(IF payload.name # NONE THEN payload.name
                                ELSE payload.email)
               /\ res'[r].status = 200
               /\ res'[r].user = Summary(u, "google")
               /\ res'[r].tokens = Token_sign([name |-> u.name, idUser |-> u.id,
                                               role |-> u.role])
               /\ log'[r] = <<"verifyIdToken", "findOne", "create", "sign">>]_vars

\* a first-time oAuthMobile login without a name in the payload created the
\* account under the email as name
C7_Witness ==
    \E r \in Slots :
        /\ Finished(r) /\ Through(r, "oAuthMobile")
        /\ loc[r].op = "create"
        /\ req[r].tokenId.payload.name = NONE
        /\ res[r].status = 200
        /\ Len(users) = 1
        /\ users[1].name = "A@x.com" /\ users[1].email = "a@x.com"
        /\ users[1].googleId = "g2" /\ users[1].provider = "google"
        /\ users[1].role = "customer"

\* request r lacks a required parameter
MissingParameter(r) ==
    \/ Through(r, "oauthCallback") /\ req[r].code = NONE
    \/ Through(r, "oAuthMobile") /\ req[r].tokenId.kind = "absent"
    \/ Through(r, "oAuthMobile") /\ req[r].provider = NONE

\* C8: a request without code, without tokenId or without provider is
\* answered 400 with no provider call and no store operation made.
C8_MissingParameterFirst ==
    \A r \in Slots :
        MissingParameter(r)
        => /\ Finished(r)
           /\ res[r].status = 400
           /\ res[r].tokens = NoTokens
           /\ log[r] = << >>
           /\ loc[r] = NoLocals

\* an oauthCallback without code and an oAuthMobile with a token but no
\* provider were both answered
C8_Witness ==
    /\ Through("r1", "oauthCallback") /\ req["r1"].code = NONE
    /\ Through("r2", "oAuthMobile") /\ req["r2"].provider = NONE
    /\ req["r2"].tokenId.kind = "jwt"
    /\ Finished("r1") /\ Finished("r2")
    /\ res["r2"].error = "Missing provider"

\* C9: oAuthMobile with a supported provider and a tokenId that does not
\* split into 3 segments is answered 401 "Token decode failed" with
\* verifyIdToken not called and no store operation made.
C9_MalformedTokenRejected ==
    \A r \in Slots :
        (/\ Through(r, "oAuthMobile")
         /\ req[r].tokenId.kind = "opaque"
         /\ req[r].provider # NONE
         /\ toLowerCase(req[r].provider) = "google")
        => /\ Finished(r)
           /\ res[r].status = 401
           /\ res[r].error = "Token decode failed"
           /\ res[r].tokens = NoTokens
           /\ log[r] = << >>
           /\ loc[r] = NoLocals

\* a one-segment tokenId sent with provider "Google" was answered 401
C9_Witness ==
    \E r \in Slots :
        /\ Through(r, "oAuthMobile")
        /\ req[r].tokenId.kind = "opaque"
        /\ req[r].provider = "Google"
        /\ Finished(r)
        /\ res[r].status = 401

\* C10: oAuthMobile with a tokenId and a provider other than google (in any
\* case) is answered 400 "Unsupported provider" with the token neither parsed
\* nor verified and no store operation made; and no step gives an account a
\* provider other than google.
C10_UnsupportedProviderRejected ==
    /\ [](\A r \in Slots :
            (/\ Through(r, "oAuthMobile")
             /\ req[r].tokenId.kind # "absent"
             /\ req[r].provider # NONE
             /\ toLowerCase(req[r].provider) # "google")
            => /\ Finished(r)
               /\ res[r].status = 400
               /\ res[r].error = "Unsupported provider"
               /\ log[r] = << >>
               /\ loc[r] = NoLocals)
    /\ [][\A i \in 1..Len(users') :
            (i > Len(users) \/ users'[i].provider # users[i].provider)
                => users'[i].provider \in {NONE, "google"}]_vars

\* a request with provider facebook was refused and one with provider
\* "Google" created an account under provider google
C10_Witness ==
    /\ Through("r1", "oAuthMobile") /\ Through("r2", "oAuthMobile")
    /\ req["r1"].provider = "facebook" /\ req["r1"].tokenId.kind = "opaque"
    /\ res["r1"].status = 400
    /\ req["r2"].provider = "Google"
    /\ res["r2"].status = 200 /\ loc["r2"].op = "create"
    /\ users[res["r2"].user.id].provider = "google"

\* C11: an oauthCallback whose code exchange was answered with a body
\* without access_token ends in 400 "Token exchange failed" with
\* getUserProfile not called and no store operation made.
C11_NoAccessTokenIsExchangeFailure ==
    \A r \in Slots :
        (/\ Finished(r)
         /\ Through(r, "oauthCallback")
         /\ loc[r].tokenData = "no access_token")
        => /\ res[r].status = 400
           /\ res[r].error = "Token exchange failed"
           /\ log[r] = <<"exchangeCodeForToken">>
           /\ loc[r].op = NONE

\* C12: an oauthCallback whose code the token endpoint rejected ends in 400
\* "Token exchange failed" with only the exchange called; one whose userinfo
\* call got a non-success answer ends in 400 "Profile fetch failed" with only
\* the exchange and the userinfo call made. Neither reads or writes the store,
\* neither gets tokens, and the steps that end them leave the store as it is.
C12_ExchangeOrFetchFailure ==
    /\ [](\A r \in Slots :
            (/\ Through(r, "oauthCallback")
             /\ loc[r].tokenData = "null")
            => /\ Finished(r)
               /\ res[r] = Failed(400, "Token exchange failed")
               /\ log[r] = <<"exchangeCodeForToken">>
               /\ loc[r].op = NONE)
    /\ [][\A r \in Slots :
            (/\ Through(r, "oauthCallback")
             /\ pc[r] = "userinfo" /\ pc'[r] # "userinfo"
             /\ loc'[r].profile = NoProfile)
            => /\ pc'[r] = "done"
               /\ res'[r] = Failed(400, "Profile fetch failed")
               /\ log'[r] = <<"exchangeCodeForToken", "getUserProfile">>
               /\ loc'[r].op = NONE
               /\ users' = users]_vars

\* one oauthCallback ended at the exchange, the other, holding an access
\* token, at the userinfo call, and the store is as it was
C12_Witness ==
    /\ Through("r1", "oauthCallback") /\ Through("r2", "oauthCallback")
    /\ Finished("r1") /\ Finished("r2")
    /\ loc["r1"].tokenData = "null"
    /\ res["r1"].error = "Token exchange failed"
    /\ loc["r2"].access_token = "ya29"
    /\ res["r2"].error = "Profile fetch failed"
    /\ users = <<SeedAdmin>>

\* C13: an oAuthMobile whose token verified and whose payload lacks sub or
\* email ends in 400 "Incomplete profile" with only verifyIdToken called: no
\* findOne, save or create, and no tokens.
C13_IncompleteProfileRejected ==
    \A r \in Slots :
        (/\ Through(r, "oAuthMobile")
         /\ pc[r] \notin {"idle", "verify"}
         /\ "verifyIdToken" \in {log[r][i] : i \in 1..Len(log[r])}
         /\ verifyIdToken(req[r].tokenId,
                          allowedAudiences(req[r].tokenId.aud)) = NONE
         /\ (req[r].tokenId.payload.id = NONE
             \/ req[r].tokenId.payload.email = NONE))
        => /\ Finished(r)
           /\ res[r] = Failed(400, "Incomplete profile")
           /\ log[r] = <<"verifyIdToken">>
           /\ loc[r].op = NONE
           /\ loc[r].profile = NoProfile

\* a payload without sub and a payload without email were both refused
C13_Witness ==
    /\ Through("r1", "oAuthMobile") /\ Through("r2", "oAuthMobile")
    /\ Finished("r1") /\ Finished("r2")
    /\ req["r1"].tokenId.payload.id = NONE
    /\ req["r1"].tokenId.payload.email # NONE
    /\ req["r2"].tokenId.payload.id # NONE
    /\ req["r2"].tokenId.payload.email = NONE
    /\ res["r1"].error = "Incomplete profile"
    /\ res["r2"].error = "Incomplete profile"

\* C14: no two accounts of the store have the same email, compared without
\* regard to case.
C14_UniqueEmail ==
    \A i, j \in 1..Len(users) :
        i # j => toLowerCase(users[i].email) # toLowerCase(users[j].email)

\* a register and an oAuthMobile first-time login raced for one email written
\* in different cases: both called create, one was refused by the index, and
\* the store holds the email once
C14_Witness ==
    /\ Through("r1", "register") /\ Through("r2", "oAuthMobile")
    /\ Finished("r1") /\ Finished("r2")
    /\ req["r1"].email = "A@x.com"
    /\ loc["r2"].profile.email = "a@x.com"
    /\ loc["r1"].op = "create" /\ loc["r2"].op = "create"
    /\ res["r1"].status = 200
    /\ res["r2"] = Failed(500, "Internal server error")
    /\ Len(users) = 1
    /\ users[1].email = "a@x.com"

\* the fields a login may change on the account it found
ProfileFields == {"name", "firstName", "lastName", "avatar", "lastLogin"}

\* C15: no step changes the id, email or googleId of an existing account, nor
\* any field other than name, firstName, lastName, avatar, lastLogin and a
\* provider that was missing; no step removes an account.
C15_IdentityFieldsKept ==
    [][/\ Len(users') >= Len(users)
       /\ \A i \in 1..Len(users) :
             /\ users'[i].id = users[i].id
             /\ users'[i].email = users[i].email
             /\ users'[i].googleId = users[i].googleId
             /\ \A f \in DOMAIN NoDoc \ (ProfileFields \cup {"provider"}) :
                   users'[i][f] = users[i][f]
             /\ users[i].provider # NONE
                   => users'[i].provider = users[i].provider]_vars

\* a login whose profile carries another email than the account found was
\* answered 200, and the account has the email it had
C15_Witness ==
    \E r \in Slots :
        /\ Finished(r) /\ res[r].status = 200
        /\ loc[r].op = "save"
        /\ loc[r].loaded = SeedAdmin
        /\ loc[r].profile.email = "b@x.com"
        /\ users[1].email = "a@x.com"
        /\ users[1].id = 1 /\ users[1].googleId = "g1"
        /\ users[1].lastLogin > SeedAdmin.lastLogin
        /\ res[r].user.email = "a@x.com"

Finding(r) == pc[r] = "find" /\ pc'[r] # "find"

\* C17: when the write of an oauthCallback or oAuthMobile login succeeded and
\* Token.sign then threw, the write stays in the store, the response is the
\* 500 "Internal server error" without tokens; no step removes an account or
\* its googleId, and a login that looks up a googleId an account holds takes
\* the update branch for that account.
C17_AccountOutlivesSignFailure ==
    [][/\ \A r \in Slots :
            (/\ Saving(r)
             /\ req[r].h \in {"oauthCallback", "oAuthMobile"}
             /\ write(users, loc[r]).err = NONE
             /\ res'[r].tokens = NoTokens)
            => /\ res'[r] = Failed(500, "Internal server error")
               /\ users' = write(users, loc[r]).users
               /\ users'[Target(r)].id = loc'[r].user.id
               /\ users'[Target(r)].lastLogin = loc[r].user.lastLogin
               /\ users'[Target(r)].googleId = loc[r].profile.id
               /\ findOne(users', loc[r].profile.id) # NoDoc
       /\ Len(users') >= Len(users)
       /\ \A i \in 1..Len(users) : users'[i].googleId = users[i].googleId
       /\ \A r \in Slots :
            (/\ Finding(r)
             /\ req[r].h \in {"oauthCallback", "oAuthMobile"}
             /\ withGoogleId(users, loc[r].profile.id) # {})
            => /\ loc'[r].op = "save"
               /\ loc'[r].loaded = findOne(users, loc[r].profile.id)
               /\ loc'[r].loaded.googleId = loc[r].profile.id]_vars

\* the first login created the account and got 500 because Token.sign threw;
\* the second login of that googleId found the account, updated it and got
\* its tokens; the store holds the one account
C17_Witness ==
    /\ signer = "faulty"
    /\ Finished("r1") /\ Finished("r2")
    /\ loc["r1"].op = "create"
    /\ log["r1"] = <<"verifyIdToken", "findOne", "create", "sign">>
    /\ res["r1"] = Failed(500, "Internal server error")
    /\ loc["r1"].user.id = 1
    /\ loc["r2"].op = "save"
    /\ loc["r2"].loaded = loc["r1"].user
    /\ res["r2"].status = 200
    /\ res["r2"].user.id = 1
    /\ Len(users) = 1
    /\ users[1].googleId = loc["r1"].profile.id

\* the calls of a handler in the order of its stages
Stages(r) ==
    IF Through(r, "oAuthMobile")
    THEN <<"verifyIdToken", "findOne", loc[r].op, "sign">>
    ELSE <<"exchangeCodeForToken", "getUserProfile", "findOne", loc[r].op,
           "sign">>

\* the calls request r has made so far
Called(r) == {log[r][i] : i \in 1..Len(log[r])}

\* the provider has vouched for the identity request r presents
IdentityVerified(r) ==
    IF Through(r, "oAuthMobile")
    THEN /\ verifyIdToken(req[r].tokenId,
                          allowedAudiences(req[r].tokenId.aud)) = NONE
         /\ req[r].tokenId.payload.id # NONE
         /\ req[r].tokenId.payload.email # NONE
    ELSE loc[r].tokenData \in {"access_token", "no access_token"}
         /\ loc[r].profile # NoProfile

\* C18: the calls of every oauthCallback and oAuthMobile request are a prefix
\* of its stages in their order; it calls the store only with the identity
\* verified, and Token.sign only with its account written to the store; it
\* has a response exactly when it is finished: a 200 with tokens after all the
\* stages, else an error without tokens or user; and its response, once sent,
\* stays as it is.
C18_StagesInOrder ==
    /\ [](\A r \in Slots :
            req[r].h \in {"oauthCallback", "oAuthMobile"}
            => /\ Len(log[r]) <= Len(Stages(r))
               /\ \A i \in 1..Len(log[r]) : log[r][i] = Stages(r)[i]
               /\ "findOne" \in Called(r) => IdentityVerified(r)
               /\ "sign" \in Called(r)
                     => /\ loc[r].user.id \in 1..Len(users)
                        /\ users[loc[r].user.id].googleId = loc[r].profile.id
               /\ Finished(r) <=> res[r].status # 0
               /\ ~Finished(r) => res[r] = NoResponse
               /\ res[r].status = 200
                     => /\ log[r] = Stages(r)
                        /\ res[r].tokens # NoTokens
                        /\ res[r].error = NONE
               /\ (Finished(r) /\ res[r].status # 200)
                     => /\ res[r].status \in {400, 401, 500}
                        /\ res[r].error # NONE
                        /\ res[r].tokens = NoTokens
                        /\ res[r].user = Summary(NoDoc, NONE))
    /\ [][\A r \in Slots :
            (Finished(r) /\ started' = started)
                => pc'[r] = "done" /\ res'[r] = res[r]]_vars

\* an oAuthMobile login went through all its stages to a 200; an
\* oauthCallback login went through all of its, Token.sign threw and it was
\* answered 500
C18_Witness ==
    /\ Through("r1", "oAuthMobile") /\ Through("r2", "oauthCallback")
    /\ Finished("r1") /\ Finished("r2")
    /\ log["r1"] = <<"verifyIdToken", "findOne", "create", "sign">>
    /\ res["r1"].status = 200
    /\ log["r2"] = <<"exchangeCodeForToken", "getUserProfile", "findOne",
                     "save", "sign">>
    /\ res["r2"] = Failed(500, "Internal server error")

\* the provider field of the summary: only oAuthMobile sends one
SummaryProvider(r, u) == IF Through(r, "oAuthMobile") THEN u.provider ELSE NONE

\* the claim payload of an account
Payload(u) == [name |-> u.name, idUser |-> u.id, role |-> u.role]

\* C19 as stated: the summary and the signed payload of every 200 of
\* oauthCallback and oAuthMobile are those of the account as the store holds
\* it when the response is sent.
C19_SummaryIsStoredAccount ==
    [][\A r \in Slots :
        (/\ Saving(r)
         /\ req[r].h \in {"oauthCallback", "oAuthMobile"}
         /\ res'[r].status = 200)
        => LET u == users'[Target(r)] IN
           /\ res'[r].user = Summary(u, SummaryProvider(r, u))
           /\ res'[r].tokens = Token_sign(Payload(u))]_vars

\* C19 (amended): the summary and the signed payload of every 200 of
\* oauthCallback and oAuthMobile carry the id, email, role (and, in
\* oAuthMobile, provider) of the account as the store holds it when the
\* response is sent, and the name (trimmed) and picture of this login's
\* profile; these are the stored name and avatar too when no other login wrote
\* the account between this login's lookup and its write.
C19_SummaryIsAccountInHand ==
    [][\A r \in Slots :
        (/\ Saving(r)
         /\ req[r].h \in {"oauthCallback", "oAuthMobile"}
         /\ res'[r].status = 200)
        => LET u == users'[Target(r)]
               t == res'[r].tokens
           IN  /\ res'[r].user.id = u.id
               /\ res'[r].user.email = u.email
               /\ res'[r].user.role = u.role
               /\ res'[r].user.provider = SummaryProvider(r, u)
               /\ res'[r].user.name = Trim(loc[r].profile.name)
               /\ res'[r].user.avatar = loc[r].profile.picture
               /\ t = Token_sign([name   |-> res'[r].user.name,
                                  idUser |-> u.id,
                                  role   |-> u.role])
               /\ (loc[r].op = "save" => users[Target(r)] = loc[r].loaded)
                     => /\ res'[r].user = Summary(u, SummaryProvider(r, u))
                        /\ t = Token_sign(Payload(u))]_vars

\* the admin account was found and updated by an oAuthMobile login: the
\* summary is that of the stored account and both tokens carry its id, its new
\* name and the role admin
C19_Witness ==
    \E r \in Slots :
        /\ Finished(r) /\ Through(r, "oAuthMobile")
        /\ res[r].status = 200
        /\ loc[r].loaded = SeedAdmin
        /\ users[1].name = "Bob"
        /\ res[r].user = Summary(users[1], "google")
        /\ res[r].tokens.accessToken.role = "admin"
        /\ res[r].tokens.refreshToken.idUser = 1
        /\ res[r].tokens.accessToken.name = "Bob"

\* C20: a loginWithToken request that presents, before its expiry, the
\* refresh token of a pair issued for account u is answered 200 with an access
\* token, signed with the access key, whose idUser is u's id (and whose role
\* and name are those of the refresh token).
C20_RefreshKeepsSubject ==
    \A r \in Slots :
        (/\ Through(r, "loginWithToken")
         /\ req[r].refreshToken.key = "k2y_refr3sh"
         /\ ~req[r].late)
        => /\ Finished(r)
           /\ res[r].status = 200
           /\ res[r].tokens.accessToken.key = "k2y_acc3ss"
           /\ res[r].tokens.accessToken.idUser = req[r].refreshToken.idUser
           /\ res[r].tokens.accessToken.role = req[r].refreshToken.role
           /\ req[r].refreshToken.idUser \in 1..Len(users)
           /\ users[req[r].refreshToken.idUser].id
                 = res[r].tokens.accessToken.idUser

\* an oAuthMobile login created account 1 and got its tokens; the refresh
\* token, presented to loginWithToken, got a 200 with an access token for
\* account 1
C20_Witness ==
    /\ Through("r1", "oAuthMobile") /\ Through("r2", "loginWithToken")
    /\ Finished("r1") /\ Finished("r2")
    /\ res["r1"].status = 200 /\ loc["r1"].op = "create"
    /\ req["r2"].refreshToken = res["r1"].tokens.refreshToken
    /\ ~req["r2"].late
    /\ res["r2"].status = 200
    /\ res["r2"].tokens.accessToken.idUser = res["r1"].user.id
    /\ res["r2"].tokens.accessToken.idUser = 1

\* C21: every loginWithToken request is answered: 400 when the body has no
\* refreshToken, 401 when the refresh token is expired or not one this server
\* signed with the refresh key.
C21_RefreshAlwaysAnswered ==
    \A r \in Slots :
        Through(r, "loginWithToken")
        => /\ Finished(r)
           /\ res[r].status # 0
           /\ req[r].refreshToken = NoTokens.refreshToken
                 => res[r].status = 400
           /\ (/\ req[r].refreshToken # NoTokens.refreshToken
               /\ (req[r].refreshToken.key # "k2y_refr3sh" \/ req[r].late))
                 => res[r].status = 401

\* C22: every oauthCallback and oAuthMobile request that waits for a
\* provider call is eventually answered, whether or not the provider answers.
C22_ProviderCallsBounded ==
    \A r \in Slots :
        (/\ req[r].h \in {"oauthCallback", "oAuthMobile"}
         /\ pc[r] \in {"exchange", "userinfo", "verify", "blocked"})
        ~> Finished(r)

\* request r is at a step that ends it on a store operation that failed:
\* findOne threw, or save or create threw or was refused
StoreFailed(r) ==
    /\ req[r].h \in {"oauthCallback", "oAuthMobile"}
    /\ pc[r] \in {"find", "write"}
    /\ pc'[r] = "done"
    /\ log'[r] = log[r]

\* C23 as stated: an oauthCallback or oAuthMobile request that ends on a
\* failed store operation, a validation failure included, is answered 500
\* "Internal server error" with nothing of the error in the response.
C23_StoreFailureOpaque ==
    [][\A r \in Slots :
        StoreFailed(r)
        => /\ res'[r] = Failed(500, "Internal server error")
           /\ users' = users]_vars

\* the 400 of oAuthMobile for a ValidationError
ValidationAnswer ==
    [Failed(400, "Validation error") EXCEPT !.details = "error.message"]

\* request r is an oAuthMobile whose save or create fails the schema's
\* validation
Invalid(r) ==
    /\ Through(r, "oAuthMobile")
    /\ pc[r] = "write"
    /\ ~validate(IF loc[r].op = "create" THEN Document(loc[r].user)
                 ELSE loc[r].user, loc[r].op = "create")

\* C23 (amended): such a request is answered 500 "Internal server error"
\* with nothing of the error in the response, except in oAuthMobile when save
\* or create fails the schema's validation: that is answered 400 "Validation
\* error" with the validation message as details. The store is left as it is.
C23_StoreFailureAnswered ==
    [][\A r \in Slots :
        StoreFailed(r)
        => /\ users' = users
           /\ res'[r].tokens = NoTokens
           /\ res'[r].user = Summary(NoDoc, NONE)
           /\ res'[r] \in {Failed(500, "Internal server error")}
                 \cup (IF Invalid(r) THEN {ValidationAnswer} ELSE {})
           /\ (Invalid(r) /\ store = "up") => res'[r] = ValidationAnswer]_vars

\* with the database unreachable an oAuthMobile request ended at findOne and
\* an oauthCallback request at save, both with the opaque 500
C23_Witness ==
    /\ store = "flaky"
    /\ Through("r1", "oAuthMobile") /\ Through("r2", "oauthCallback")
    /\ Finished("r1") /\ Finished("r2")
    /\ log["r1"] = <<"verifyIdToken", "findOne">>
    /\ res["r1"] = Failed(500, "Internal server error")
    /\ log["r2"] = <<"exchangeCodeForToken", "getUserProfile", "findOne",
                     "save">>
    /\ loc["r2"].loaded = SeedAdmin
    /\ validate(loc["r2"].user, FALSE)
    /\ res["r2"] = Failed(500, "Internal server error")
    /\ users = <<SeedAdmin>>

\* the checks of oAuthMobile in their order, each with its status and error
Checks ==
    <<[status |-> 400, error |-> "Missing token ID"],
      [status |-> 400, error |-> "Missing provider"],
      [status |-> 400, error |-> "Unsupported provider"],
      [status |-> 401, error |-> "Token decode failed"],
      [status |-> 401, error |-> "Token verification failed"],
      [status |-> 401, error |-> "Audience mismatch"],
      [status |-> 400, error |-> "Incomplete profile"]>>

\* whether the body of request r fails check i
Fails(r, i) ==
    LET t == req[r].tokenId IN
    CASE i = 1 -> t.kind = "absent"
      [] i = 2 -> req[r].provider = NONE
      [] i = 3 -> toLowerCase(req[r].provider) # "google"
      [] i = 4 -> t.kind \in {"opaque", "badjson"}
      [] i = 5 -> ~t.valid
      [] i = 6 -> t.aud = NONE
      [] i = 7 -> t.payload.id = NONE \/ t.payload.email = NONE

\* the first check the body of request r fails, 0 when it passes them all
FirstFailing(r) ==
    IF \E i \in 1..7 : Fails(r, i)
    THEN CHOOSE i \in 1..7 : Fails(r, i) /\ \A j \in 1..(i-1) : ~Fails(r, j)
    ELSE 0

Issued == {res[s].tokens : s \in {x \in Slots : res[x].tokens # NoTokens}}

\* C25: a request that presents "Bearer <token>", the token being the access
\* token of a pair issued by a login and not yet expired, gets no 401: next is
\* called and req.decoded carries the idUser and role of the token, which are
\* the id and role of an account of the store.
C25_AccessTokenRoundTrip ==
    \A r \in Slots :
        (/\ Through(r, "auth")
         /\ req[r].authorization.parts = 2
         /\ req[r].authorization.scheme = "Bearer"
         /\ \E t \in Issued : req[r].authorization.token = t.accessToken
         /\ ~req[r].late)
        => /\ res[r].status # 401
           /\ log[r] # << >>
           /\ log[r][1] = "next"
           /\ req[r].decoded.idUser = req[r].authorization.token.idUser
           /\ req[r].decoded.role = req[r].authorization.token.role
           /\ req[r].decoded.idUser \in 1..Len(users)
           /\ users[req[r].decoded.idUser].id = req[r].decoded.idUser
           /\ users[req[r].decoded.idUser].role = req[r].decoded.role

\* the admin account logged in through oAuthMobile and its access token,
\* presented as Bearer, was let through with idUser 1 and role admin
C25_Witness ==
    /\ Through("r1", "oAuthMobile") /\ Through("r2", "auth")
    /\ res["r1"].status = 200
    /\ loc["r1"].loaded = SeedAdmin
    /\ req["r2"].authorization
          = Authorization(2, "Bearer", res["r1"].tokens.accessToken)
    /\ ~req["r2"].late
    /\ pc["r2"] = "next"
    /\ req["r2"].decoded.idUser = 1
    /\ req["r2"].decoded.role = "admin"

Acceptable(r) ==
    /\ req[r].authorization.parts = 2
    /\ req[r].authorization.scheme = "Bearer"
    /\ req[r].authorization.token # NoTokens.accessToken
    /\ req[r].authorization.token.key = key_access
    /\ ~req[r].late

\* C30: a request to /user with an acceptable header is passed on by next,
\* with no response of the middleware, and only then reaches the route; every
\* other request gets a 401, next is not called and the route is not reached.
C30_OnlyBearerPasses ==
    \A r \in Slots :
        Through(r, "auth")
        => IF Acceptable(r)
           THEN \/ /\ pc[r] = "next" /\ log[r] = <<"next">>
                   /\ res[r] = NoResponse
                \/ /\ Finished(r) /\ log[r] = <<"next", "UserRoute">>
                   /\ res[r].status = 200
           ELSE /\ Finished(r)
                /\ res[r].status = 401
                /\ log[r] = << >>
                /\ req[r].decoded = NoTokens.accessToken

\* the access token of a login, sent under the scheme Basic, was refused
\* with the message about the format and the route was not reached
C30_Witness ==
    /\ Through("r1", "oAuthMobile") /\ Through("r2", "auth")
    /\ res["r1"].status = 200
    /\ req["r2"].authorization
          = Authorization(2, "Basic", res["r1"].tokens.accessToken)
    /\ res["r2"]
          = Failed(401, "Authorization header format must be: Bearer <token>")
    /\ log["r2"] = << >>

\* C27: an oauthCallback that answers 200 fetched a profile with an id and
\* answers for an account whose googleId is that id; an oauthCallback whose
\* profile has no id or no email changes no account.
C27_TokensOnlyForMatchedAccount ==
    /\ [](\A r \in Slots :
            (/\ Through(r, "oauthCallback")
             /\ Finished(r)
             /\ res[r].status = 200)
            => /\ loc[r].profile.id # NONE
               /\ res[r].user.id \in 1..Len(users)
               /\ users[res[r].user.id].googleId = loc[r].profile.id)
    /\ [][\A r \in Slots :
            (/\ Through(r, "oauthCallback")
             /\ Saving(r)
             /\ (loc[r].profile.id = NONE \/ loc[r].profile.email = NONE))
            => /\ users' = users
               /\ res'[r].tokens = NoTokens]_vars

\* C28: when an oauthCallback or oAuthMobile login found no account by
\* googleId and an account already holds the email of the profile, the login
\* adds no account and answers 200 with tokens for that account.
C28_ResolvesByEmail ==
    [][\A r \in Slots :
          (/\ Saving(r)
           /\ (Through(r, "oauthCallback") \/ Through(r, "oAuthMobile"))
           /\ loc[r].op = "create"
           /\ loc[r].profile.email # NONE
           /\ findOneByEmail(users, loc[r].profile.email) # NoDoc)
          => /\ Len(users') = Len(users)
             /\ res'[r].status = 200
             /\ res'[r].tokens # NoTokens
             /\ res'[r].user.id
                   = findOneByEmail(users, loc[r].profile.email).id]_vars

\* the store after the verify callback of the GoogleStrategy ran alone on
\* the store us with the profile p at the time date
passportStore(us, p, date) ==
    LET begun == GoogleStrategy_begin(p) IN
    IF begun.pc = "hung" THEN us
    ELSE write(us, GoogleStrategy_found(us, begun.loc, begun.log, date).loc)
            .users

\* the store after oauthCallback ran alone on the store us with the fetched
\* profile p at the time date
callbackStore(us, p, date) ==
    write(us, oauthCallback_found(us, [NoLocals EXCEPT !.profile = p], << >>,
                                  date).loc).users

\* C29: on the profile of a request the GoogleStrategy received and the store
\* as it stands, the verify callback and oauthCallback leave the same store.
C29_ReconcilersAgree ==
    \A r \in Slots :
        Through(r, "GoogleStrategy")
        => passportStore(users, req[r].profile, now)
              = callbackStore(users, req[r].profile, now)

\* C31: a login that finds the account of its email answers 200 with a pair
\* of tokens and the idUser of the account when the hash of its password is
\* the stored password, and otherwise 401 without tokens; it never answers
\* 200 for an account that has no password.
C31_PasswordLogin ==
    [][\A r \in Slots :
          LET user == findOneByEmail(users, req[r].email) IN
          (/\ Through(r, "login")
           /\ Finding(r)
           /\ user # NoDoc)
          => IF user.password # NONE
                /\ sha256(req[r].password) = user.password
             THEN /\ res'[r].status = 200
                  /\ res'[r].tokens # NoTokens
                  /\ res'[r].tokens.accessToken.idUser = user.id
                  /\ res'[r].user.id = user.id
             ELSE /\ res'[r].status = 401
                  /\ res'[r].tokens = NoTokens]_vars

\* the call the step makes
Calling(op) ==
    /\ Len(returned') = Len(returned) + 1
    /\ returned'[Len(returned')].op = op

\* C32: whenever the stored loginAttempts is 5 or more the account has
\* lockUntil set; an incrementLoginAttempts after the stored lock has expired
\* leaves loginAttempts 1 and no lockUntil; resetLoginAttempts clears both.
C32_LockedAtFive ==
    /\ [](account.loginAttempts >= 5 => account.lockUntil # Unset)
    /\ [][(/\ Calling("incrementLoginAttempts")
           /\ account.lockUntil # Unset
           /\ account.lockUntil < clock)
          => /\ account'.loginAttempts = 1
             /\ account'.lockUntil = Unset]_vars
    /\ [][Calling("resetLoginAttempts")
          => /\ account'.loginAttempts = Unset
             /\ account'.lockUntil = Unset]_vars

\* the positions of the calls of verify that returned true
Verified == {i \in 1..Len(returned) :
                returned[i].op = "verify" /\ returned[i].value = "true"}

\* the call at position i comes after a successful verify, or after the
\* wrong token that used up the attempts, with no regenerateToken since
Spent(i) ==
    \E j \in 1..(i-1) :
        /\ returned[j].op = "verify"
        /\ \/ returned[j].value = "true"
           \/ /\ returned[j].value = "false"
              /\ \E k \in j..(i-1) :
                    /\ \A m \in j..k : returned[m].op = "verify"
                                       /\ returned[m].value = "false"
                    /\ k - j + 1 = verifications[1].maxAttempts
        /\ \A k \in (j+1)..(i-1) :
              ~(returned[k].op = "regenerateToken"
                /\ returned[k].value = "saved")

ActiveOf(vs, user, type) ==
    {i \in 1..Len(vs) :
        /\ vs[i].user = user /\ vs[i].type = type
        /\ ~vs[i].isUsed /\ ~vs[i].isExpired}

\* C34: at most one verification of a user and type is active, and a
\* createVerification that has run its updateMany saves the new verification
\* and returns it.
C34_OneActiveVerification ==
    /\ [](\A type \in VerificationTypes :
             Cardinality(ActiveOf(verifications, "u1", type)) <= 1)
    /\ [][Calling("createVerification")
          => /\ returned'[Len(returned')].value = "saved"
             /\ Len(verifications') = Len(verifications) + 1
             /\ ~verifications'[Len(verifications')].isUsed
             /\ ~verifications'[Len(verifications')].isExpired]_vars

\* the session was destroyed or its expiresAt has passed
Over(doc, date) == ~doc.isActive \/ doc.expiresAt < date

\* C35: a stored session that was destroyed or whose expiresAt has passed is
\* returned by findBySessionId and findByUser neither now nor after any step;
\* logout leaves the stored session with isAuthenticated false, no user and
\* empty data and with its isActive and expiresAt; cleanupExpired deletes the
\* sessions that are inactive or expired and no other.
C35_SessionLifecycle ==
    [][/\ \A i \in 1..Len(sessions) :
             Over(sessions[i], clock)
             => /\ i \notin findBySessionId(sessions, sessions[i].sessionId,
                                            clock)
                /\ \A j \in 1..Len(sessions') :
                      sessions'[j].sessionId = sessions[i].sessionId
                      => /\ j \notin findBySessionId(sessions',
                                        sessions'[j].sessionId, clock')
                         /\ j \notin findByUser(sessions', sessions'[j].user,
                                                clock')
       /\ (Calling("logout") /\ returned'[Len(returned')].value = "saved")
          => \A i \in 1..Len(sessions) :
                sessions[i].sessionId = returned'[Len(returned')].arg
                => /\ ~sessions'[i].isAuthenticated
                   /\ sessions'[i].user = NONE
                   /\ sessions'[i].data = {}
                   /\ sessions'[i].isActive = sessions[i].isActive
                   /\ sessions'[i].expiresAt = sessions[i].expiresAt
       /\ Calling("cleanupExpired")
          => sessions' = SelectSeq(sessions,
                                   LAMBDA d : ~Over(d, clock))]_vars

\* C36: for each of the types shipping and billing, findDefaultAddress
\* matches at most one address of the user.
C36_OneDefaultPerType ==
    \A type \in {"shipping", "billing"} :
        Cardinality(findDefaultAddress(addresses, type)) <= 1

\* the amounts of the refunds that are pending or completed
requested(this) == total(this.refunds, {"pending", "completed"})

\* C37: the refunds of the payment that are not failed never add up to more
\* than its amount; processRefund throws and leaves the payment as it is
\* unless the status is completed and the amount is at most the refundable
\* amount; after a processRefund that went through the status is refunded
\* when the requested total has reached the amount and partially_refunded
\* when it is below.
C37_RefundsWithinAmount ==
    /\ [](requested(payment) <= payment.amount)
    /\ [][Calling("processRefund")
          => IF /\ payment.status = "completed"
                /\ returned'[Len(returned')].arg <= refundableAmount(payment)
             THEN /\ returned'[Len(returned')].value = "saved"
                  /\ payment'.status
                        = IF requested(payment') >= payment.amount
                          THEN "refunded" ELSE "partially_refunded"
             ELSE /\ returned'[Len(returned')].value = "throws"
                  /\ payment' = payment]_vars

=============================================================================
